----------------------------- MODULE MediaProofs -----------------------------
(***************************************************************************)
(* Proofs about Media: the references of a content cover its files, for    *)
(* any number of files, contents, handlers that overlap, and faults.       *)
(*                                                                         *)
(* The files that count are not only the committed ones.  A handler that   *)
(* has taken its reference will commit its file, and the clean-up will     *)
(* quarantine a file it found committed, even if the row was marked        *)
(* meanwhile: such files are pinned, and the references cover them too.    *)
(*                                                                         *)
(* And the quota of a user is kept, for any number of users, files and     *)
(* handlers.                                                               *)
(***************************************************************************)
EXTENDS Media, FiniteSetTheorems, TLAPS

Final == {"COMMITTED", "QUARANTINED"}
Tags == {"PENDING", "QUARANTINED", "upload", "blob", "COMMITTED"}
Completing == {"join", "head", "check", "purge", "blob", "upsert"}
Based == {"rekey", "move", "ref"}

\* A row of a list of the clean-up: a content it collects is torn, a file it
\* found committed exists.
Good(r) ==
    /\ r[3] \in Tags
    /\ r[3] = "blob" => r[1] \in torn
    /\ r[3] = "COMMITTED" =>
          r[1] \in File /\ status[r[1]] # "none" /\ file[r[1]] \in Upload

\* f is committed, will be committed by a handler, or may be quarantined.
Pin(f) ==
    \/ status[f] \in Final
    \/ \E p \in Proc : pc[p] = "commit" /\ job[p].f = f
    \/ \E r \in todo : r[3] = "COMMITTED" /\ r[1] = f
    \/ wpc # "idle" /\ cur[3] = "COMMITTED" /\ cur[1] = f

Pinned(h) == {f \in File : file[f].hash = h /\ Pin(f)}

\* A row that was inserted has its file record, and a handler works on a file
\* that was applied for.
Filled ==
    /\ \A f \in File : status[f] \notin {"none", "DELETED"} => file[f] \in Upload
    /\ \A p \in Proc : pc[p] # "idle" =>
          job[p].f \in File /\ status[job[p].f] # "none" /\ FileOf(p) \in Upload

\* A file has a key, and so has a handler that may need one.
Keyed ==
    /\ \A f \in File : file[f] \in Upload => place[f] # None
    /\ \A p \in Proc : pc[p] \in Completing => job[p].key # None
    /\ \A p \in Proc : pc[p] \in {"rekey", "move"} => job[p].to # None

\* The worker is where the row it works on has brought it.
Working ==
    /\ \A r \in todo : Good(r)
    /\ wpc # "idle" => Good(cur)
    /\ wpc \in {"unref", "refund", "erase"} => cur[3] = "blob"
    /\ wpc \in {"sniff", "taint"} => cur[3] = "COMMITTED"

\* A blob without references has a handler about to add one, the handler finds
\* the blob, what is no blob has no references, and only a torn content gets old
\* without references.
Ensured ==
    /\ \A h \in Hash \ torn : blob[h] # None /\ ref[h] = 0 =>
          \E p \in Proc : pc[p] = "ref" /\ FileOf(p).hash = h
    /\ \A p \in Proc : pc[p] \in Based /\ FileOf(p).hash \notin torn =>
          blob[FileOf(p).hash] # None
    /\ \A h \in Hash \ torn : blob[h] = None => ref[h] = 0
    /\ aged \subseteq torn

\* The references cover the pinned files.
Covered ==
    \A h \in Hash \ torn :
        /\ Cardinality(Pinned(h)) <= ref[h]
        /\ Pinned(h) # {} => blob[h] # None

IInv == TypeOK /\ Filled /\ Keyed /\ Working /\ Ensured /\ Covered

-----------------------------------------------------------------------------
(* What a step may do, part by part *)

\* Rows stay, keep their content, and become final only if pinned.
RowStep ==
    \A f \in File :
        /\ status[f] # "none" =>
              /\ status'[f] # "none" /\ file'[f].hash = file[f].hash
              /\ file[f] \in Upload => file'[f] \in Upload
        /\ status'[f] \in Final => Pin(f)
        /\ status'[f] \notin {"none", "DELETED"} => file'[f] \in Upload

\* Handlers work on files that exist, commit pinned ones, add a reference only
\* where there is a blob, and give up adding it only if the content is torn.
JobStep ==
    \A q \in Proc :
        /\ pc'[q] # "idle" =>
              /\ job'[q].f \in File /\ status'[job'[q].f] # "none"
              /\ file'[job'[q].f] \in Upload
        /\ pc'[q] = "commit" => Pin(job'[q].f)
        /\ pc'[q] \in Based =>
              \/ pc[q] \in Based /\ job'[q].f = job[q].f
              \/ blob'[file'[job'[q].f].hash] # None
              \/ file'[job'[q].f].hash \in torn'
        /\ pc[q] = "ref" =>
              \/ pc'[q] = "ref" /\ job'[q].f = job[q].f
              \/ FileOf(q).hash \in torn'

\* The rows on the list are good, and the ones found committed are pinned.
GoodNext(r) ==
    /\ r[3] \in Tags
    /\ r[3] = "blob" => r[1] \in torn'
    /\ r[3] = "COMMITTED" =>
          /\ r[1] \in File /\ status'[r[1]] # "none" /\ file'[r[1]] \in Upload
          /\ Pin(r[1])

WorkStep ==
    /\ \A r \in todo' : GoodNext(r)
    /\ wpc' # "idle" => GoodNext(cur')
    /\ wpc' \in {"unref", "refund", "erase"} => cur'[3] = "blob"
    /\ wpc' \in {"sniff", "taint"} => cur'[3] = "COMMITTED"

\* Blobs of contents that are not torn stay and keep their references, and a new
\* one comes with a handler that adds one.
BlobStep ==
    /\ torn \subseteq torn' /\ aged' \subseteq torn'
    /\ \A h \in Hash \ torn' :
          /\ ref'[h] = ref[h]
          /\ blob[h] # None => blob'[h] # None
          /\ blob'[h] # None => blob[h] # None \/
                \E p \in Proc : pc'[p] = "ref" /\ file'[job'[p].f].hash = h

-----------------------------------------------------------------------------
(* The parts together *)

\* There are finitely many files.
LEMMA FilesFinite == IsFiniteSet(File)
  <1>1. MaxFiles \in Int /\ 1 \in Int
    BY MediaAssumption, SMTT(30) DEF MediaAssumption
  <1> QED
    BY <1>1, FS_Interval, Zenon DEF File

\* Sizes are numbers.
LEMMA SizesNat == \A n \in Size \cup {0} : n \in Nat
  <1>1. \A n \in Size : n \in Nat
    BY MediaAssumption, Zenon DEF MediaAssumption
  <1> QED
    BY <1>1, SMTT(30)

\* A file that is pinned after such a step was pinned before, with its content.
LEMMA PinStep ==
  ASSUME IInv, RowStep, JobStep, WorkStep, NEW f \in File, Pin(f)'
  PROVE  Pin(f) /\ status[f] # "none" /\ file'[f].hash = file[f].hash
  <1>1. Pin(f)
    <2>1. CASE status'[f] \in Final
      BY <2>1, Zenon DEF RowStep
    <2>2. CASE \E p \in Proc : pc'[p] = "commit" /\ job'[p].f = f
      BY <2>2, Zenon DEF JobStep
    <2>3. CASE \E r \in todo' : r[3] = "COMMITTED" /\ r[1] = f
      BY <2>3, Zenon DEF WorkStep, GoodNext
    <2>4. CASE wpc' # "idle" /\ cur'[3] = "COMMITTED" /\ cur'[1] = f
      BY <2>4, Zenon DEF WorkStep, GoodNext
    <2> QED
      BY <2>1, <2>2, <2>3, <2>4, Zenon DEF Pin
  <1>2. status[f] # "none"
    BY <1>1, Zenon DEF Pin, Final, IInv, Filled, Working, Good
  <1> QED
    BY <1>1, <1>2, Zenon DEF RowStep

\* Allowed steps keep the references ahead of the pinned files.
LEMMA CoveredStep ==
  ASSUME IInv, RowStep, JobStep, WorkStep, BlobStep
  PROVE  Covered'
  <1> SUFFICES ASSUME NEW h \in Hash \ torn'
               PROVE  Cardinality(Pinned(h)') <= ref'[h] /\ (Pinned(h)' # {} => blob'[h] # None)
    BY Zenon DEF Covered
  <1>1. Pinned(h)' \subseteq Pinned(h)
    BY PinStep, Zenon DEF Pinned
  <1>2. IsFiniteSet(Pinned(h))
    BY FilesFinite, FS_Subset, Zenon DEF Pinned
  <1>3. Cardinality(Pinned(h)') <= Cardinality(Pinned(h))
    BY <1>1, <1>2, FS_Subset, Zenon
  <1>4. Cardinality(Pinned(h)) \in Nat /\ Cardinality(Pinned(h)') \in Nat
    BY <1>1, <1>2, FS_Subset, FS_CardinalityType, Zenon
  <1>5. h \in Hash \ torn
    BY Zenon DEF BlobStep
  <1>6. Cardinality(Pinned(h)) <= ref[h] /\ (Pinned(h) # {} => blob[h] # None)
    BY <1>5, Zenon DEF IInv, Covered
  <1>7. ref'[h] = ref[h] /\ (blob[h] # None => blob'[h] # None) /\ ref[h] \in Nat
    BY Zenon DEF BlobStep, IInv, TypeOK, BlobTypes
  <1>8. Pinned(h)' # {} => Pinned(h) # {}
    BY <1>1, Zenon
  <1> QED
    BY <1>3, <1>4, <1>6, <1>7, <1>8, SMTT(30)

\* Allowed steps keep rows and jobs filled.
LEMMA FilledStep ==
  ASSUME RowStep, JobStep
  PROVE  Filled'
  BY Zenon DEF Filled, RowStep, JobStep, FileOf

\* Allowed steps keep the worker where its row brought it.
LEMMA WorkingStep ==
  ASSUME WorkStep
  PROVE  Working'
  BY Zenon DEF Working, WorkStep, Good, GoodNext

\* Allowed steps keep every blob with a reference, or with one to come.
LEMMA EnsuredStep ==
  ASSUME IInv, RowStep, JobStep, BlobStep
  PROVE  Ensured'
  <1>1. ASSUME NEW q \in Proc, pc[q] \in Based
        PROVE  /\ job[q].f \in File /\ status[job[q].f] # "none"
               /\ file'[job[q].f].hash = FileOf(q).hash /\ FileOf(q).hash \in Hash
    BY <1>1, Zenon DEF IInv, Filled, RowStep, FileOf, Based, Upload
  <1>2. ASSUME NEW h \in Hash \ torn', blob'[h] # None, ref'[h] = 0
        PROVE  \E p \in Proc : pc'[p] = "ref" /\ file'[job'[p].f].hash = h
    <2>1. h \notin torn /\ ref[h] = 0
      BY <1>2, Zenon DEF BlobStep
    <2>2. CASE blob[h] # None
      <3>1. PICK q \in Proc : pc[q] = "ref" /\ FileOf(q).hash = h
        BY <2>1, <2>2, Zenon DEF IInv, Ensured
      <3>2. pc'[q] = "ref" /\ job'[q].f = job[q].f
        BY <3>1, Zenon DEF JobStep
      <3>3. file'[job[q].f].hash = h
        BY <1>1, <3>1, Zenon DEF Based
      <3> QED
        BY <3>2, <3>3, Zenon
    <2>3. CASE blob[h] = None
      BY <1>2, <2>3, Zenon DEF BlobStep
    <2> QED
      BY <2>2, <2>3, Zenon
  <1>3. ASSUME NEW q \in Proc, pc'[q] \in Based, file'[job'[q].f].hash \notin torn'
        PROVE  blob'[file'[job'[q].f].hash] # None
    <2>1. CASE pc[q] \in Based /\ job'[q].f = job[q].f
      <3> DEFINE h == FileOf(q).hash
      <3>1. file'[job'[q].f].hash = h /\ h \in Hash
        BY <1>1, <2>1, Zenon
      <3>2. h \notin torn' /\ h \notin torn
        BY <1>3, <3>1, Zenon DEF BlobStep
      <3>3. blob[h] # None
        BY <2>1, <3>2, Zenon DEF IInv, Ensured
      <3>4. blob'[h] # None
        BY <3>1, <3>2, <3>3, Zenon DEF BlobStep
      <3> QED
        BY <3>1, <3>4, Zenon
    <2> QED
      BY <1>3, <2>1, Zenon DEF JobStep
  <1>4. aged' \subseteq torn'
    BY Zenon DEF BlobStep
  <1>5. \A h \in Hash \ torn' : blob'[h] = None => ref'[h] = 0
    BY Zenon DEF BlobStep, IInv, Ensured
  <1> QED
    BY <1>2, <1>3, <1>4, <1>5, Zenon DEF Ensured, FileOf

\* A step whose parts are allowed keeps the invariant.
LEMMA PartsKeep ==
  ASSUME IInv, TypeOK', Keyed', RowStep, JobStep, WorkStep, BlobStep
  PROVE  IInv'
  BY CoveredStep, FilledStep, WorkingStep, EnsuredStep, Zenon DEF IInv

-----------------------------------------------------------------------------
(* Parts that a step leaves alone, and the usual ways of changing them *)

\* Rows that stay the same.
LEMMA RowsRest ==
  ASSUME IInv, UNCHANGED <<status, file>>
  PROVE  RowStep
  BY Zenon DEF RowStep, IInv, Filled, Pin

\* A row is refused, inserted or marked.
LEMMA StatusStep ==
  ASSUME IInv, NEW f, NEW s \in {"refused", "PENDING", "DELETED"},
         s # "DELETED" => f \in File /\ file[f] \in Upload,
         SetStatus(f, s), file' = file
  PROVE  RowStep
  <1>1. ASSUME NEW g \in File
        PROVE  status'[g] = (IF g = f THEN s ELSE status[g])
    BY Zenon DEF SetStatus, IInv, TypeOK, RowTypes
  <1> QED
    BY <1>1, Zenon DEF RowStep, IInv, Filled, Pin, Final

\* A pinned row is committed or quarantined.
LEMMA PinnedStatusStep ==
  ASSUME IInv, NEW f \in File, NEW s \in Final, Pin(f), file[f] \in Upload,
         SetStatus(f, s), file' = file
  PROVE  RowStep
  <1>1. ASSUME NEW g \in File
        PROVE  status'[g] = (IF g = f THEN s ELSE status[g])
    BY Zenon DEF SetStatus, IInv, TypeOK, RowTypes
  <1> QED
    BY <1>1, Zenon DEF RowStep, IInv, Filled, Pin, Final

\* Blobs that stay the same.
LEMMA BlobsRest ==
  ASSUME IInv, UNCHANGED <<blob, ref, aged>>, torn \subseteq torn'
  PROVE  BlobStep
  BY Zenon DEF BlobStep, IInv, Ensured

\* Handlers that stay where they are.
LEMMA JobsRest ==
  ASSUME IInv, RowStep, UNCHANGED jobVars
  PROVE  JobStep
  <1>1. ASSUME NEW q \in Proc, pc[q] = "commit"
        PROVE  Pin(job[q].f)
    BY <1>1, Zenon DEF Pin
  <1> QED
    BY <1>1, Zenon DEF JobStep, RowStep, IInv, Filled, jobVars, FileOf

\* A handler goes on, without a reference to add before or after.
LEMMA JobGoto ==
  ASSUME IInv, RowStep, NEW p \in Proc, pc[p] # "idle", NEW l, l # "commit",
         Goto(p, l),
         l \in Based => \/ pc[p] \in Based
                        \/ blob'[file'[job[p].f].hash] # None
                        \/ file'[job[p].f].hash \in torn',
         pc[p] = "ref" => FileOf(p).hash \in torn'
  PROVE  JobStep
  <1>1. ASSUME NEW q \in Proc
        PROVE  pc'[q] = (IF q = p THEN l ELSE pc[q]) /\ job'[q] = job[q]
    BY Zenon DEF Goto, IInv, TypeOK, JobTypes
  <1>2. ASSUME NEW q \in Proc, pc[q] = "commit"
        PROVE  Pin(job[q].f)
    BY <1>2, Zenon DEF Pin
  <1>3. ASSUME NEW q \in Proc, pc[q] # "idle"
        PROVE  job[q].f \in File /\ status'[job[q].f] # "none" /\ file'[job[q].f] \in Upload
    BY <1>3, Zenon DEF IInv, Filled, RowStep, FileOf
  <1> QED
    BY <1>1, <1>2, <1>3, Zenon DEF JobStep

\* A handler ends.
LEMMA JobFinish ==
  ASSUME IInv, RowStep, NEW p \in Proc, Finish(p),
         pc[p] = "ref" => FileOf(p).hash \in torn'
  PROVE  JobStep
  <1>1. ASSUME NEW q \in Proc
        PROVE  /\ pc'[q] = (IF q = p THEN "idle" ELSE pc[q])
               /\ q # p => job'[q] = job[q]
    BY Zenon DEF Finish, IInv, TypeOK, JobTypes
  <1>2. ASSUME NEW q \in Proc, pc[q] = "commit"
        PROVE  Pin(job[q].f)
    BY <1>2, Zenon DEF Pin
  <1>3. ASSUME NEW q \in Proc, pc[q] # "idle"
        PROVE  job[q].f \in File /\ status'[job[q].f] # "none" /\ file'[job[q].f] \in Upload
    BY <1>3, Zenon DEF IInv, Filled, RowStep, FileOf
  <1> QED
    BY <1>1, <1>2, <1>3, Zenon DEF JobStep, Based

\* A handler gets a request, or notes a key.
LEMMA JobSet ==
  ASSUME IInv, RowStep, NEW p \in Proc, NEW l, NEW j,
         pc' = [pc EXCEPT ![p] = l], job' = [job EXCEPT ![p] = j],
         j.f \in File, status'[j.f] # "none", file'[j.f] \in Upload,
         l # "commit", pc[p] # "ref",
         l \in Based => blob'[file'[j.f].hash] # None
  PROVE  JobStep
  <1>1. ASSUME NEW q \in Proc
        PROVE  /\ pc'[q] = (IF q = p THEN l ELSE pc[q])
               /\ job'[q] = (IF q = p THEN j ELSE job[q])
    BY Zenon DEF IInv, TypeOK, JobTypes
  <1>2. ASSUME NEW q \in Proc, pc[q] = "commit"
        PROVE  Pin(job[q].f)
    BY <1>2, Zenon DEF Pin
  <1>3. ASSUME NEW q \in Proc, pc[q] # "idle"
        PROVE  job[q].f \in File /\ status'[job[q].f] # "none" /\ file'[job[q].f] \in Upload
    BY <1>3, Zenon DEF IInv, Filled, RowStep, FileOf
  <1> QED
    BY <1>1, <1>2, <1>3, Zenon DEF JobStep

\* Rows and handlers that stay the same keep their keys.
LEMMA KeyedRest ==
  ASSUME IInv, UNCHANGED <<file, place, jobVars>>
  PROVE  Keyed'
  BY Zenon DEF IInv, Keyed, jobVars

\* A handler that goes on keeps its keys.
LEMMA KeyedGoto ==
  ASSUME IInv, UNCHANGED <<file, place>>, NEW p \in Proc, NEW l, Goto(p, l),
         l \in Completing => pc[p] \in Completing,
         l \in {"rekey", "move"} => pc[p] = "rekey"
  PROVE  Keyed'
  <1>1. ASSUME NEW q \in Proc
        PROVE  pc'[q] = (IF q = p THEN l ELSE pc[q]) /\ job'[q] = job[q]
    BY Zenon DEF Goto, IInv, TypeOK, JobTypes
  <1> QED
    BY <1>1, Zenon DEF IInv, Keyed

\* A handler that ends needs no key.
LEMMA KeyedFinish ==
  ASSUME IInv, UNCHANGED <<file, place>>, NEW p \in Proc, Finish(p)
  PROVE  Keyed'
  <1>1. ASSUME NEW q \in Proc
        PROVE  /\ pc'[q] = (IF q = p THEN "idle" ELSE pc[q])
               /\ q # p => job'[q] = job[q]
    BY Zenon DEF Finish, IInv, TypeOK, JobTypes
  <1> QED
    BY <1>1, Zenon DEF IInv, Keyed, Completing

\* The worker stays where it is.
LEMMA WorkRest ==
  ASSUME IInv, RowStep, torn \subseteq torn', UNCHANGED <<wpc, todo, cur>>
  PROVE  WorkStep
  <1>1. ASSUME NEW r \in todo
        PROVE  GoodNext(r)
    <2>1. Good(r)
      BY Zenon DEF IInv, Working
    <2>2. r[3] = "COMMITTED" => Pin(r[1])
      BY Zenon DEF Pin
    <2> QED
      BY <2>1, <2>2, Zenon DEF Good, GoodNext, RowStep
  <1>2. ASSUME wpc # "idle"
        PROVE  GoodNext(cur)
    <2>1. Good(cur)
      BY <1>2, Zenon DEF IInv, Working
    <2>2. cur[3] = "COMMITTED" => Pin(cur[1])
      BY <1>2, Zenon DEF Pin
    <2> QED
      BY <2>1, <2>2, Zenon DEF Good, GoodNext, RowStep
  <1> QED
    BY <1>1, <1>2, Zenon DEF WorkStep, IInv, Working

\* The worker goes on with its row.
LEMMA WorkGoto ==
  ASSUME IInv, RowStep, torn \subseteq torn', wpc # "idle", NEW l, WGoto(l),
         l \in {"unref", "refund", "erase"} => cur[3] = "blob",
         l \in {"sniff", "taint"} => cur[3] = "COMMITTED"
  PROVE  WorkStep
  <1>1. ASSUME NEW r, r \in todo \/ r = cur
        PROVE  GoodNext(r)
    <2>1. Good(r)
      BY <1>1, Zenon DEF IInv, Working
    <2>2. r[3] = "COMMITTED" => Pin(r[1])
      BY <1>1, Zenon DEF Pin
    <2> QED
      BY <2>1, <2>2, Zenon DEF Good, GoodNext, RowStep
  <1> QED
    BY <1>1, Zenon DEF WorkStep, WGoto

\* The worker takes a row of a list of good ones.
LEMMA WorkTake ==
  ASSUME NEW list, \A r \in list : GoodNext(r), Take(list)
  PROVE  WorkStep
  <1>1. CASE list = {} /\ wpc' = "idle" /\ todo' = {} /\ cur' = None
    BY <1>1, Zenon DEF WorkStep
  <1>2. CASE \E r \in list : wpc' = Entry(r) /\ todo' = list \ {r} /\ cur' = r
    <2>1. PICK r \in list : wpc' = Entry(r) /\ todo' = list \ {r} /\ cur' = r
      BY <1>2, Zenon
    <2>2. r[3] \in Tags
      BY <2>1, Zenon DEF GoodNext
    <2>3. /\ wpc' \in {"unref", "refund", "erase"} => r[3] = "blob"
          /\ wpc' \in {"sniff", "taint"} => r[3] = "COMMITTED"
      BY <2>1, <2>2, Zenon DEF Entry, Tags
    <2> QED
      BY <2>1, <2>3, Zenon DEF WorkStep
  <1> QED
    BY <1>1, <1>2, Zenon DEF Take

\* The worker takes the next row of its list.
LEMMA WorkNext ==
  ASSUME IInv, RowStep, torn \subseteq torn', WNext
  PROVE  WorkStep
  <1>1. ASSUME NEW r \in todo
        PROVE  GoodNext(r)
    <2>1. Good(r)
      BY Zenon DEF IInv, Working
    <2>2. r[3] = "COMMITTED" => Pin(r[1])
      BY Zenon DEF Pin
    <2> QED
      BY <2>1, <2>2, Zenon DEF Good, GoodNext, RowStep
  <1> QED
    BY <1>1, WorkTake, Zenon DEF WNext

-----------------------------------------------------------------------------
(* Types *)

\* The idle job has its type.
LEMMA NoJobType == NoJob \in Job
  BY Zenon DEF NoJob, NewJob, Job

\* A new job has its type and its file.
LEMMA NewJobType ==
  ASSUME NEW f \in File, NEW k \in Key \cup {None}, NEW n \in Nat
  PROVE  NewJob(f, k, n) \in Job /\ NewJob(f, k, n).f = f
  BY Zenon DEF NewJob, Job

\* The number of faults is a number.
LEMMA FaultType ==
  ASSUME IInv, NEW k, NoFault \/ Fault(k)
  PROVE  faults' \in Nat
  BY SMTT(30) DEF IInv, TypeOK, GhostTypes, NoFault, Fault

\* The types after a handler goes on.
LEMMA GotoType ==
  ASSUME IInv, NEW p \in Proc, NEW l \in Step, Goto(p, l)
  PROVE  JobTypes'
  BY Zenon DEF IInv, TypeOK, JobTypes, Goto

\* The types after a handler ends.
LEMMA FinishType ==
  ASSUME IInv, NEW p \in Proc, Finish(p)
  PROVE  JobTypes'
  <1> "idle" \in Step
    BY Zenon DEF Step
  <1> QED
    BY NoJobType, Zenon DEF IInv, TypeOK, JobTypes, Finish

\* The types after a handler gets a new job.
LEMMA JobSetType ==
  ASSUME IInv, NEW p \in Proc, NEW l \in Step, NEW j \in Job,
         pc' = [pc EXCEPT ![p] = l], job' = [job EXCEPT ![p] = j]
  PROVE  JobTypes'
  BY Zenon DEF IInv, TypeOK, JobTypes

\* The types after a row gets a status.
LEMMA StatusType ==
  ASSUME IInv, NEW f,
         NEW s \in {"draft", "refused", "PENDING", "COMMITTED", "DELETED", "QUARANTINED"},
         SetStatus(f, s), UNCHANGED <<file, place, late>>
  PROVE  RowTypes'
  BY Zenon DEF IInv, TypeOK, RowTypes, SetStatus

\* The types after an object is put or deleted.
LEMMA ObjectType ==
  ASSUME IInv, NEW k, NEW n \in Length \cup {0}, SetObject(k, n)
  PROVE  object' \in [Key -> Length \cup {0}]
  BY Zenon DEF IInv, TypeOK, StoreTypes, SetObject

\* The types after an object is deleted, or not.
LEMMA TryDeleteType ==
  ASSUME IInv, NEW k, TryDelete(k), UNCHANGED <<url, uploads>>
  PROVE  StoreTypes' /\ faults' \in Nat
  <1>1. object' \in [Key -> Length \cup {0}]
    BY ObjectType, Zenon DEF TryDelete, IInv, TypeOK, StoreTypes
  <1>2. faults' \in Nat
    BY FaultType, Zenon DEF TryDelete
  <1> QED
    BY <1>1, <1>2, Zenon DEF StoreTypes, IInv, TypeOK

\* Only users get loose.
LEMMA ServeType ==
  ASSUME IInv, NEW p, NEW u \in User, Serve(p, u)
  PROVE  loose' \subseteq User
  BY Zenon DEF IInv, TypeOK, GhostTypes, Serve

\* The types after the worker takes a row of a list.
LEMMA TakeType ==
  ASSUME IInv, NEW list, \A r \in list : r[3] \in Tags, Take(list), cursor' \in 0..MaxFiles
  PROVE  WorkTypes'
  <1>1. ASSUME NEW r, r[3] \in Tags
        PROVE  Entry(r) \in {"blob", "delete", "orphan", "unref", "sniff"}
    BY <1>1, Zenon DEF Entry, Tags
  <1> QED
    BY <1>1, Zenon DEF Take, WorkTypes

\* The types after the worker takes the next row.
LEMMA NextType ==
  ASSUME IInv, WNext, cursor' \in 0..MaxFiles
  PROVE  WorkTypes'
  <1>1. \A r \in todo : r[3] \in Tags
    BY Zenon DEF IInv, Working, Good
  <1> QED
    BY <1>1, TakeType, Zenon DEF WNext

-----------------------------------------------------------------------------
(* Steps of a handler *)

\* What a handler under way knows.
LEMMA Own ==
  ASSUME IInv, NEW p \in Proc, pc[p] # "idle"
  PROVE  /\ job[p].f \in File /\ status[job[p].f] # "none"
         /\ FileOf(p) \in Upload /\ file[job[p].f] = FileOf(p)
         /\ FileOf(p).hash \in Hash /\ FileOf(p).owner \in User
         /\ FileOf(p).size \in Size
  BY Zenon DEF IInv, Filled, FileOf, Upload

\* A step that leaves blobs and worker alone.
LEMMA HandlerKeeps ==
  ASSUME IInv, RowStep, JobStep, Keyed', UNCHANGED <<blobVars, workVars>>,
         torn \subseteq torn', torn' \subseteq Hash,
         RowTypes', StoreTypes', JobTypes',
         used' \in [User -> Nat], loose' \subseteq User, faults' \in Nat
  PROVE  IInv'
  <1>1. BlobStep
    BY BlobsRest, Zenon DEF blobVars
  <1>2. WorkStep
    BY WorkRest, Zenon DEF workVars
  <1>3. TypeOK'
    BY Zenon DEF IInv, TypeOK, BlobTypes, WorkTypes, GhostTypes, blobVars, workVars
  <1> QED
    BY <1>1, <1>2, <1>3, PartsKeep, Zenon

\* The parts of the types that a step leaves alone.
LEMMA TypesRest ==
  ASSUME IInv
  PROVE  /\ UNCHANGED rowVars => RowTypes'
         /\ UNCHANGED storeVars => StoreTypes'
         /\ UNCHANGED blobVars => BlobTypes'
         /\ UNCHANGED jobVars => JobTypes'
         /\ UNCHANGED workVars => WorkTypes'
         /\ UNCHANGED used => used' \in [User -> Nat]
         /\ UNCHANGED torn => torn \subseteq torn' /\ torn' \subseteq Hash
         /\ UNCHANGED loose => loose' \subseteq User
         /\ UNCHANGED faults => faults' \in Nat
  <1> USE DEF IInv, TypeOK
  <1>1. UNCHANGED rowVars => RowTypes'
    BY Zenon DEF RowTypes, rowVars
  <1>2. UNCHANGED storeVars => StoreTypes'
    BY Zenon DEF StoreTypes, storeVars
  <1>3. UNCHANGED blobVars => BlobTypes'
    BY Zenon DEF BlobTypes, blobVars
  <1>4. UNCHANGED jobVars => JobTypes'
    BY Zenon DEF JobTypes, jobVars
  <1>5. UNCHANGED workVars => WorkTypes'
    BY Zenon DEF WorkTypes, workVars
  <1> QED
    BY <1>1, <1>2, <1>3, <1>4, <1>5, Zenon DEF GhostTypes

\* A new request keeps the invariant: its file was not pinned.
LEMMA KeepsApplyEnsure ==
  ASSUME IInv, NEW p \in Proc, NEW f \in File, NEW u \in User, NEW h \in Hash,
         NEW pu \in Purpose, NEW n \in Size, NEW m \in Multi,
         ApplyEnsure(p, f, u, h, pu, n, m)
  PROVE  IInv'
  <1> DEFINE new == [owner |-> u, hash |-> h, size |-> n, multi |-> m]
  <1>1. new \in Upload
    BY MediaAssumption, Zenon DEF MediaAssumption, Upload
  <1>2. ASSUME NEW g \in File
        PROVE  /\ status'[g] = (IF g = f THEN "draft" ELSE status[g])
               /\ file'[g] = (IF g = f THEN new ELSE file[g])
    BY Zenon DEF ApplyEnsure, SetStatus, IInv, TypeOK, RowTypes
  <1>3. RowStep
    <2> HIDE DEF new
    <2> QED
      BY <1>1, <1>2, "none" \notin Final, Zenon DEF RowStep, IInv, Filled, Pin, ApplyEnsure, Final
  <1>4. PICK j : /\ job' = [job EXCEPT ![p] = j]
                 /\ j = NewJob(f, None, used[u]) \/ j = NewJob(f, None, 0)
    BY Zenon DEF ApplyEnsure
  <1>5. j \in Job /\ j.f = f
    <2>1. used[u] \in Nat
      BY Zenon DEF IInv, TypeOK
    <2> QED
      BY <1>4, <2>1, NewJobType, SMTT(30)
  <1>6. pc' = [pc EXCEPT ![p] = "quota"] /\ pc[p] = "idle"
    BY Zenon DEF ApplyEnsure
  <1>7. JobStep
    BY <1>1, <1>2, <1>3, <1>4, <1>5, <1>6, JobSet, Zenon DEF Based
  <1>8. JobTypes'
    BY <1>4, <1>5, <1>6, JobSetType, Zenon DEF Step
  <1>9. RowTypes'
    <2>1. status' \in [File -> {"none", "draft", "refused", "PENDING", "COMMITTED",
                                "DELETED", "QUARANTINED"}]
      BY Zenon DEF ApplyEnsure, SetStatus, IInv, TypeOK, RowTypes
    <2>2. file' \in [File -> Upload \cup {NoFile}]
      <3> file' = [file EXCEPT ![f] = new]
        BY Zenon DEF ApplyEnsure
      <3> HIDE DEF new
      <3> QED
        BY <1>1, Zenon DEF IInv, TypeOK, RowTypes
    <2>3. place' \in [File -> Key \cup {None}]
      BY Zenon DEF ApplyEnsure, IInv, TypeOK, RowTypes, Key
    <2> QED
      BY <2>1, <2>2, <2>3, Zenon DEF RowTypes, ApplyEnsure, IInv, TypeOK
  <1>12. Keyed'
    <2>1. \A g \in File : place'[g] = (IF g = f THEN <<pu, h>> ELSE place[g])
      BY Zenon DEF ApplyEnsure, IInv, TypeOK, RowTypes
    <2>2. <<pu, h>> # None
      BY MediaAssumption, SMTT(30) DEF MediaAssumption, Key
    <2>3. \A g \in File : file'[g] \in Upload => place'[g] # None
      BY <1>2, <2>1, <2>2, Zenon DEF IInv, Keyed
    <2>4. ASSUME NEW q \in Proc
          PROVE  pc'[q] = (IF q = p THEN "quota" ELSE pc[q]) /\ (q # p => job'[q] = job[q])
      BY <1>4, <1>6, Zenon DEF IInv, TypeOK, JobTypes
    <2> QED
      BY <2>3, <2>4, Zenon DEF IInv, Keyed, Completing
  <1>10. loose' \subseteq User
    BY ServeType, Zenon DEF ApplyEnsure, IInv, TypeOK, GhostTypes
  <1>11. faults' \in Nat
    BY FaultType, Zenon DEF ApplyEnsure
  <1> QED
    BY <1>3, <1>7, <1>8, <1>9, <1>10, <1>11, <1>12, TypesRest, HandlerKeeps, Zenon DEF ApplyEnsure

\* CheckQuota keeps the invariant.
LEMMA KeepsCheckQuota ==
  ASSUME IInv, NEW p \in Proc, CheckQuota(p)
  PROVE  IInv'
  <1>1. pc[p] = "quota" /\ UNCHANGED <<file, place, late, storeVars, blobVars, used, workVars, torn>>
    BY Zenon DEF CheckQuota
  <1>2. /\ job[p].f \in File /\ file[job[p].f] \in Upload /\ file[job[p].f].owner \in User
    BY <1>1, Own, Zenon
  <1>3. faults' \in Nat /\ loose' \subseteq User
    BY <1>2, FaultType, Zenon DEF CheckQuota, IInv, TypeOK, GhostTypes
  <1>4. CASE Goto(p, "dedup") /\ UNCHANGED status
    <2>1. RowStep
      BY <1>1, <1>4, RowsRest, Zenon
    <2>2. JobStep
      BY <1>1, <1>4, <2>1, JobGoto, Zenon DEF Based
    <2>3. JobTypes' /\ RowTypes'
      BY <1>1, <1>4, GotoType, TypesRest, Zenon DEF Step, rowVars
    <2>4. Keyed'
      BY <1>1, <1>4, KeyedGoto, Zenon DEF Completing
    <2> QED
      BY <1>1, <1>3, <2>1, <2>2, <2>3, <2>4, TypesRest, HandlerKeeps, Zenon
  <1>5. CASE Finish(p) /\ SetStatus(job[p].f, "refused")
    <2>1. RowStep
      BY <1>1, <1>2, <1>5, StatusStep, Zenon
    <2>2. JobStep
      BY <1>1, <1>5, <2>1, JobFinish, Zenon
    <2>3. JobTypes' /\ RowTypes'
      BY <1>1, <1>5, FinishType, StatusType, Zenon
    <2>4. Keyed'
      BY <1>1, <1>5, KeyedFinish, Zenon
    <2> QED
      BY <1>1, <1>3, <2>1, <2>2, <2>3, <2>4, TypesRest, HandlerKeeps, Zenon
  <1> QED
    BY <1>4, <1>5, Zenon DEF CheckQuota

\* Dedup keeps the invariant: a shared key comes from a blob.
LEMMA KeepsDedup ==
  ASSUME IInv, NEW p \in Proc, Dedup(p)
  PROVE  IInv'
  <1> DEFINE f == job[p].f
             h == file[f].hash
  <1>1. pc[p] = "dedup" /\ UNCHANGED <<late, blobVars, used, workVars, torn, loose>>
    BY Zenon DEF Dedup
  <1>2. f \in File /\ status[f] # "none" /\ file[f] \in Upload /\ h \in Hash
    BY <1>1, Own, Zenon
  <1>3. faults' \in Nat
    BY FaultType, Zenon DEF Dedup
  <1>4. CASE /\ blob[h] # None
             /\ place' = [place EXCEPT ![f] = blob[h]]
             /\ file' = [file EXCEPT ![f].multi = FALSE]
             /\ Goto(p, "insert") /\ UNCHANGED <<status, storeVars>>
    <2>1. [file[f] EXCEPT !.multi = FALSE] \in Upload /\ [file[f] EXCEPT !.multi = FALSE].hash = h
      BY <1>2, Zenon DEF Upload
    <2>2. ASSUME NEW g \in File
          PROVE  file'[g] = (IF g = f THEN [file[f] EXCEPT !.multi = FALSE] ELSE file[g])
      BY <1>4, Zenon DEF IInv, TypeOK, RowTypes
    <2>3. RowStep
      BY <1>2, <1>4, <2>1, <2>2, Zenon DEF RowStep, IInv, Filled, Pin
    <2>4. JobStep
      BY <1>1, <1>4, <2>3, JobGoto, Zenon DEF Based
    <2>5. RowTypes'
      <3>1. file' \in [File -> Upload \cup {NoFile}]
        BY <1>2, <1>4, <2>1, Zenon DEF IInv, TypeOK, RowTypes
      <3>2. place' \in [File -> Key \cup {None}]
        BY <1>2, <1>4, Zenon DEF IInv, TypeOK, RowTypes, BlobTypes
      <3> QED
        BY <1>1, <1>4, <3>1, <3>2, Zenon DEF IInv, TypeOK, RowTypes
    <2>6. JobTypes' /\ StoreTypes'
      BY <1>1, <1>4, GotoType, TypesRest, Zenon DEF Step
    <2>7. Keyed'
      <3>1. \A g \in File : file'[g] \in Upload => place'[g] # None
        BY <1>2, <1>4, <2>2, Zenon DEF IInv, Keyed, TypeOK, RowTypes
      <3>2. ASSUME NEW q \in Proc
            PROVE  pc'[q] = (IF q = p THEN "insert" ELSE pc[q]) /\ job'[q] = job[q]
        BY <1>4, Zenon DEF Goto, IInv, TypeOK, JobTypes
      <3> QED
        BY <3>1, <3>2, Zenon DEF IInv, Keyed, Completing
    <2> QED
      BY <1>1, <1>3, <2>3, <2>4, <2>5, <2>6, <2>7, TypesRest, HandlerKeeps, Zenon
  <1>5. CASE /\ \/ uploads' = uploads \cup {f} /\ UNCHANGED url
                \/ url' = url \cup {f} /\ UNCHANGED uploads
             /\ Goto(p, "insert") /\ UNCHANGED <<status, file, place, object>>
    <2>1. RowStep
      BY <1>5, RowsRest, Zenon
    <2>2. JobStep
      BY <1>1, <1>5, <2>1, JobGoto, Zenon DEF Based
    <2>3. JobTypes' /\ RowTypes'
      BY <1>1, <1>5, GotoType, TypesRest, Zenon DEF Step, rowVars
    <2>4. StoreTypes'
      BY <1>2, <1>5, Zenon DEF StoreTypes, IInv, TypeOK
    <2>5. Keyed'
      BY <1>1, <1>5, KeyedGoto, Zenon DEF Completing
    <2> QED
      BY <1>1, <1>3, <2>1, <2>2, <2>3, <2>4, <2>5, TypesRest, HandlerKeeps, Zenon
  <1>6. CASE Finish(p) /\ SetStatus(f, "refused") /\ UNCHANGED <<file, place, storeVars>>
    <2>1. RowStep
      BY <1>2, <1>6, StatusStep, Zenon
    <2>2. JobStep
      BY <1>1, <1>6, <2>1, JobFinish, Zenon
    <2>3. JobTypes' /\ RowTypes'
      BY <1>1, <1>6, FinishType, StatusType, Zenon
    <2>4. Keyed'
      BY <1>1, <1>6, KeyedFinish, Zenon
    <2> QED
      BY <1>1, <1>3, <1>6, <2>1, <2>2, <2>3, <2>4, TypesRest, HandlerKeeps, Zenon
  <1> QED
    BY <1>4, <1>5, <1>6, Zenon DEF Dedup

\* Insert keeps the invariant.
LEMMA KeepsInsert ==
  ASSUME IInv, NEW p \in Proc, Insert(p)
  PROVE  IInv'
  <1>1. /\ pc[p] = "insert" /\ Finish(p)
        /\ UNCHANGED <<file, place, late, object, blobVars, used, workVars, torn, loose>>
    BY Zenon DEF Insert
  <1>2. job[p].f \in File /\ file[job[p].f] \in Upload
    BY <1>1, Own, Zenon
  <1>3. SetStatus(job[p].f, "PENDING") \/ SetStatus(job[p].f, "refused")
    BY Zenon DEF Insert
  <1>4. RowStep
    BY <1>1, <1>2, <1>3, StatusStep, Zenon
  <1>5. JobStep
    BY <1>1, <1>4, JobFinish, Zenon
  <1>6. JobTypes' /\ RowTypes'
    BY <1>1, <1>3, FinishType, StatusType, Zenon
  <1>7. StoreTypes'
    BY <1>1, Zenon DEF Insert, StoreTypes, IInv, TypeOK
  <1>8. faults' \in Nat
    BY FaultType, Zenon DEF Insert
  <1>9. Keyed'
    BY <1>1, KeyedFinish, Zenon
  <1> QED
    BY <1>1, <1>4, <1>5, <1>6, <1>7, <1>8, <1>9, TypesRest, HandlerKeeps, Zenon

\* ClientPut keeps the invariant.
LEMMA KeepsClientPut ==
  ASSUME IInv, NEW f \in File, NEW n \in Length, ClientPut(f, n)
  PROVE  IInv'
  <1>1. UNCHANGED <<rowVars, uploads, blobVars, used, jobVars, workVars, faults, torn, loose>>
    BY Zenon DEF ClientPut
  <1>2. RowStep /\ JobStep /\ Keyed'
    BY <1>1, RowsRest, JobsRest, KeyedRest, Zenon DEF rowVars
  <1>3. StoreTypes'
    <2>1. object' \in [Key -> Length \cup {0}]
      BY ObjectType, Zenon DEF ClientPut
    <2> QED
      BY <2>1, Zenon DEF ClientPut, StoreTypes, IInv, TypeOK
  <1> QED
    BY <1>1, <1>2, <1>3, TypesRest, HandlerKeeps, Zenon

\* Age keeps the invariant.
LEMMA KeepsAge ==
  ASSUME IInv, NEW f \in File, Age(f)
  PROVE  IInv'
  <1>1. UNCHANGED <<status, file, place, object, uploads, blobVars, used, jobVars, workVars,
                    faults, torn, loose>>
    BY Zenon DEF Age
  <1>2. RowStep /\ JobStep /\ Keyed'
    BY <1>1, RowsRest, JobsRest, KeyedRest, Zenon
  <1>3. RowTypes' /\ StoreTypes'
    BY <1>1, Zenon DEF Age, RowTypes, StoreTypes, IInv, TypeOK
  <1> QED
    BY <1>1, <1>2, <1>3, TypesRest, HandlerKeeps, Zenon

\* CompleteUpload, CompleteMultipartUpload and AbortMultipartUpload start.
LEMMA KeepsStart ==
  ASSUME IInv, NEW p \in Proc, NEW f \in File, NEW l,
         (CompleteStart(p, f, l) /\ l \in {"head", "join"}) \/ AbortStart(p, f)
  PROVE  IInv'
  <1>1. /\ pc[p] = "idle" /\ status[f] \in {"PENDING", "COMMITTED", "QUARANTINED"}
        /\ Serve(p, file[f].owner)
        /\ UNCHANGED <<rowVars, url, object, blobVars, used, workVars, torn>>
    BY Zenon DEF CompleteStart, AbortStart, storeVars
  <1>2. \E k \in {"head", "join", "drop"}, x \in {place[f], None} :
           /\ pc' = [pc EXCEPT ![p] = k] /\ job' = [job EXCEPT ![p] = NewJob(f, x, 0)]
           /\ k # "drop" => x = place[f]
    BY Zenon DEF CompleteStart, AbortStart
  <1>12. PICK k \in {"head", "join", "drop"}, x \in {place[f], None} :
           /\ pc' = [pc EXCEPT ![p] = k] /\ job' = [job EXCEPT ![p] = NewJob(f, x, 0)]
           /\ k # "drop" => x = place[f]
    BY <1>2, Zenon
  <1> DEFINE j == NewJob(f, x, 0)
  <1>3. place[f] \in Key \cup {None}
    BY Zenon DEF IInv, TypeOK, RowTypes
  <1>4. j \in Job /\ j.f = f /\ j.key = x
    <2>1. x \in Key \cup {None}
      BY <1>3, Zenon
    <2> QED
      BY <2>1, NewJobType, Zenon DEF NewJob
  <1>13. job' = [job EXCEPT ![p] = j]
    BY <1>12, Zenon
  <1> HIDE DEF j
  <1>5. RowStep
    BY <1>1, RowsRest, Zenon DEF rowVars
  <1>6. file[f] \in Upload /\ file[f].owner \in User
    BY <1>1, Zenon DEF IInv, Filled, Upload
  <1>7. JobStep
    BY <1>1, <1>4, <1>5, <1>6, <1>12, <1>13, JobSet, Zenon DEF Based, rowVars
  <1>8. JobTypes'
    BY <1>4, <1>12, <1>13, JobSetType, Zenon DEF Step
  <1>14. Keyed'
    <2>1. ASSUME NEW q \in Proc
          PROVE  pc'[q] = (IF q = p THEN k ELSE pc[q]) /\ job'[q] = (IF q = p THEN j ELSE job[q])
      BY <1>12, <1>13, Zenon DEF IInv, TypeOK, JobTypes
    <2>2. k # "drop" => j.key # None
      BY <1>4, <1>6, <1>12, Zenon DEF IInv, Keyed
    <2> QED
      BY <1>1, <1>12, <2>1, <2>2, SMTT(30) DEF IInv, Keyed, Completing, rowVars
  <1>9. loose' \subseteq User
    BY <1>1, <1>6, ServeType, Zenon
  <1>10. faults' \in Nat /\ StoreTypes'
    <2>1. faults' \in Nat
      BY FaultType, Zenon DEF CompleteStart, AbortStart, NoFault
    <2>2. uploads' \subseteq File
      BY Zenon DEF CompleteStart, AbortStart, storeVars, IInv, TypeOK, StoreTypes
    <2> QED
      BY <1>1, <2>1, <2>2, Zenon DEF IInv, TypeOK, StoreTypes
  <1> QED
    BY <1>1, <1>5, <1>7, <1>8, <1>9, <1>10, <1>14, TypesRest, HandlerKeeps, Zenon

\* Steps of CompleteUpload that change neither rows nor blobs.
LEMMA KeepsObjects ==
  ASSUME IInv, NEW p \in Proc, Join(p) \/ Head(p) \/ Purge(p) \/ Rekey(p)
  PROVE  IInv'
  <1>1. /\ pc[p] \in {"join", "head", "check", "purge", "rekey"}
        /\ UNCHANGED <<rowVars, url, blobVars, used, workVars, torn, loose>>
    BY Zenon DEF Join, Head, Purge, Rekey, storeVars
  <1>2. RowStep
    BY <1>1, RowsRest, Zenon DEF rowVars
  <1>3. \/ Finish(p)
        \/ pc[p] # "rekey" /\ \E l \in {"check", "blob", "purge", "drop"} : Goto(p, l)
        \/ pc[p] = "rekey" /\ Goto(p, "move")
    BY Zenon DEF Join, Head, Purge, Rekey
  <1>4. JobStep
    <2>1. CASE Finish(p)
      BY <1>1, <1>2, <2>1, JobFinish, Zenon
    <2>2. CASE pc[p] # "rekey" /\ \E l \in {"check", "blob", "purge", "drop"} : Goto(p, l)
      BY <1>1, <1>2, <2>2, JobGoto, Zenon DEF Based
    <2>3. CASE pc[p] = "rekey" /\ Goto(p, "move")
      BY <1>2, <2>3, JobGoto, Zenon DEF Based
    <2> QED
      BY <1>3, <2>1, <2>2, <2>3, Zenon
  <1>5. JobTypes'
    BY <1>3, GotoType, FinishType, Zenon DEF Step
  <1>6. StoreTypes' /\ faults' \in Nat
    <2>1. CASE Join(p)
      <3>1. object' \in [Key -> Length \cup {0}]
        BY <2>1, ObjectType, Zenon DEF Join, IInv, TypeOK, StoreTypes
      <3>2. faults' \in Nat
        BY <2>1, FaultType, Zenon DEF Join
      <3> QED
        BY <1>1, <2>1, <3>1, <3>2, Zenon DEF Join, IInv, TypeOK, StoreTypes
    <2>2. CASE Head(p)
      BY <2>2, FaultType, TypesRest, Zenon DEF Head
    <2>3. CASE Purge(p) \/ Rekey(p)
      BY <2>3, TryDeleteType, Zenon DEF Purge, Rekey
    <2> QED
      BY <2>1, <2>2, <2>3, Zenon
  <1>7. Keyed'
    BY <1>1, <1>3, KeyedGoto, KeyedFinish, Zenon DEF Completing, rowVars
  <1> QED
    BY <1>1, <1>2, <1>4, <1>5, <1>6, <1>7, TypesRest, HandlerKeeps, Zenon

\* Drop keeps the invariant.
LEMMA KeepsDrop ==
  ASSUME IInv, NEW p \in Proc, Drop(p)
  PROVE  IInv'
  <1>1. /\ pc[p] = "drop" /\ Finish(p)
        /\ UNCHANGED <<file, place, late, storeVars, blobVars, used, workVars, torn, loose>>
    BY Zenon DEF Drop
  <1>2. SetStatus(job[p].f, "DELETED") \/ UNCHANGED status
    BY Zenon DEF Drop, TryStatus
  <1>3. RowStep
    BY <1>1, <1>2, StatusStep, RowsRest, Zenon
  <1>4. JobStep
    BY <1>1, <1>3, JobFinish, Zenon
  <1>5. JobTypes' /\ RowTypes'
    BY <1>1, <1>2, FinishType, StatusType, TypesRest, Zenon DEF rowVars
  <1>6. faults' \in Nat
    BY FaultType, Zenon DEF Drop, TryStatus
  <1>7. Keyed'
    BY <1>1, KeyedFinish, Zenon
  <1> QED
    BY <1>1, <1>3, <1>4, <1>5, <1>6, <1>7, TypesRest, HandlerKeeps, Zenon

\* SelectBlob keeps the invariant: a reference is added only to a blob that is there.
LEMMA KeepsSelectBlob ==
  ASSUME IInv, NEW p \in Proc, SelectBlob(p)
  PROVE  IInv'
  <1> DEFINE k == blob[FileOf(p).hash]
  <1>1. /\ pc[p] = "blob"
        /\ UNCHANGED <<rowVars, storeVars, blobVars, used, workVars, torn, loose>>
    BY Zenon DEF SelectBlob
  <1>2. /\ job[p].f \in File /\ status[job[p].f] # "none" /\ FileOf(p).hash \in Hash
        /\ file[job[p].f] = FileOf(p) /\ FileOf(p) \in Upload
    BY <1>1, Own, Zenon
  <1>3. RowStep
    BY <1>1, RowsRest, Zenon DEF rowVars
  <1>4. faults' \in Nat
    BY FaultType, Zenon DEF SelectBlob
  <1>5. blob' = blob /\ file' = file /\ status' = status
    BY <1>1, Zenon DEF blobVars, rowVars
  <1>6. CASE Goto(p, "upsert") \/ (k # None /\ Goto(p, "ref"))
    <2>1. JobStep
      <3>1. CASE Goto(p, "upsert")
        BY <1>1, <1>3, <3>1, JobGoto, Zenon DEF Based
      <3>2. CASE k # None /\ Goto(p, "ref")
        BY <1>1, <1>2, <1>3, <1>5, <3>2, JobGoto, Zenon
      <3> QED
        BY <1>6, <3>1, <3>2, Zenon
    <2>2. JobTypes'
      BY <1>6, GotoType, Zenon DEF Step
    <2>3. Keyed'
      BY <1>1, <1>6, KeyedGoto, Zenon DEF Completing, rowVars
    <2> QED
      BY <1>1, <1>3, <1>4, <2>1, <2>2, <2>3, TypesRest, HandlerKeeps, Zenon
  <1>7. CASE k # None /\ pc' = [pc EXCEPT ![p] = "rekey"] /\ job' = [job EXCEPT ![p].to = k]
    <2> DEFINE j == [job[p] EXCEPT !.to = k]
    <2>1. k \in Key \cup {None} /\ job[p] \in Job
      BY <1>2, Zenon DEF IInv, TypeOK, BlobTypes, JobTypes
    <2>2. j \in Job /\ j.f = job[p].f
      BY <2>1, Zenon DEF Job
    <2>3. job' = [job EXCEPT ![p] = j]
      BY <1>7, Zenon
    <2> HIDE DEF j
    <2>4. JobStep
      <3>1. blob'[file'[j.f].hash] # None /\ status'[j.f] # "none" /\ file'[j.f] \in Upload
        BY <1>2, <1>5, <1>7, <2>2, Zenon
      <3>2. pc[p] # "ref" /\ "rekey" # "commit" /\ j.f \in File
        BY <1>1, <1>2, <2>2, Zenon
      <3> QED
        BY <1>3, <1>7, <2>3, <3>1, <3>2, JobSet, Zenon
    <2>5. JobTypes'
      BY <1>7, <2>2, <2>3, JobSetType, Zenon DEF Step
    <2>6. Keyed'
      <3>1. ASSUME NEW q \in Proc
            PROVE  /\ pc'[q] = (IF q = p THEN "rekey" ELSE pc[q])
                   /\ job'[q] = (IF q = p THEN j ELSE job[q])
        BY <1>7, <2>3, Zenon DEF IInv, TypeOK, JobTypes
      <3>2. j.to # None
        BY <1>7, <2>1, Zenon DEF j, Job
      <3> QED
        BY <1>1, <3>1, <3>2, Zenon DEF IInv, Keyed, Completing, rowVars
    <2> QED
      BY <1>1, <1>3, <1>4, <2>4, <2>5, <2>6, TypesRest, HandlerKeeps, Zenon
  <1> QED
    BY <1>6, <1>7, Zenon DEF SelectBlob

\* Move keeps the invariant.
LEMMA KeepsMove ==
  ASSUME IInv, NEW p \in Proc, Move(p)
  PROVE  IInv'
  <1>1. /\ pc[p] = "move" /\ Goto(p, "ref")
        /\ UNCHANGED <<status, file, late, storeVars, blobVars, used, workVars, torn, loose>>
    BY Zenon DEF Move
  <1>2. RowStep
    BY <1>1, RowsRest, Zenon
  <1>3. JobStep
    BY <1>1, <1>2, JobGoto, Zenon DEF Based
  <1>4. JobTypes'
    BY <1>1, GotoType, Zenon DEF Step
  <1>5. RowTypes'
    <2>1. job[p].to \in Key \cup {None}
      BY Zenon DEF IInv, TypeOK, JobTypes, Job
    <2>2. place' \in [File -> Key \cup {None}]
      BY <2>1, Zenon DEF Move, IInv, TypeOK, RowTypes
    <2> QED
      BY <1>1, <2>2, Zenon DEF IInv, TypeOK, RowTypes
  <1>6. faults' \in Nat
    BY FaultType, Zenon DEF Move
  <1>7. Keyed'
    <2>1. ASSUME NEW q \in Proc
          PROVE  pc'[q] = (IF q = p THEN "ref" ELSE pc[q]) /\ job'[q] = job[q]
      BY <1>1, Zenon DEF Goto, IInv, TypeOK, JobTypes
    <2>2. job[p].to # None
      BY <1>1, Zenon DEF IInv, Keyed
    <2>3. \A f \in File : place'[f] = place[f] \/ place'[f] = job[p].to
      BY Zenon DEF Move, IInv, TypeOK, RowTypes
    <2> QED
      BY <1>1, <2>1, <2>2, <2>3, Zenon DEF IInv, Keyed, Completing
  <1> QED
    BY <1>1, <1>2, <1>3, <1>4, <1>5, <1>6, <1>7, TypesRest, HandlerKeeps, Zenon

\* Upsert keeps the invariant: a new blob comes with its handler.
LEMMA KeepsUpsert ==
  ASSUME IInv, NEW p \in Proc, Upsert(p)
  PROVE  IInv'
  <1> DEFINE h == FileOf(p).hash
  <1>1. /\ pc[p] = "upsert" /\ Goto(p, "ref")
        /\ UNCHANGED <<rowVars, storeVars, used, workVars, loose>>
    BY Zenon DEF Upsert
  <1>2. /\ job[p].f \in File /\ h \in Hash /\ file[job[p].f] = FileOf(p)
        /\ FileOf(p).size \in Size
    BY <1>1, Own, Zenon
  <1>3. RowStep /\ file' = file
    BY <1>1, RowsRest, Zenon DEF rowVars
  <1>4. faults' \in Nat
    BY FaultType, Zenon DEF Upsert
  <1>5. torn \subseteq torn' /\ torn' \subseteq Hash
    BY <1>2, Zenon DEF Upsert, IInv, TypeOK, GhostTypes
  <1>6. JobTypes'
    BY <1>1, GotoType, Zenon DEF Step
  <1>9. Keyed'
    BY <1>1, KeyedGoto, Zenon DEF Completing, rowVars
  <1>7. CASE UNCHANGED blobVars /\ (blob[h] # None \/ h \in torn')
    <2>1. JobStep
      BY <1>1, <1>2, <1>3, <1>7, JobGoto, Zenon DEF blobVars
    <2> QED
      BY <1>1, <1>3, <1>4, <1>5, <1>6, <1>7, <1>9, <2>1, TypesRest, HandlerKeeps, Zenon
  <1>8. CASE /\ blob[h] = None
             /\ blob' = [blob EXCEPT ![h] = job[p].key]
             /\ ref' = [ref EXCEPT ![h] = 0]
             /\ total' = [total EXCEPT ![h] = FileOf(p).size]
             /\ aged' = aged \ {h}
             /\ torn' = torn
    <2>1. job[p].key \in Key \cup {None} /\ job[p].key # None
      BY <1>1, Zenon DEF IInv, TypeOK, JobTypes, Job, Keyed, Completing
    <2>2. ASSUME NEW g \in Hash
          PROVE  /\ blob'[g] = (IF g = h THEN job[p].key ELSE blob[g])
                 /\ ref'[g] = (IF g = h THEN 0 ELSE ref[g])
      BY <1>8, Zenon DEF IInv, TypeOK, BlobTypes
    <2>3. pc'[p] = "ref" /\ file'[job'[p].f].hash = h
      BY <1>1, <1>2, <1>3, Zenon DEF Goto, IInv, TypeOK, JobTypes
    <2>4. JobStep
      BY <1>1, <1>2, <1>3, <2>1, <2>2, JobGoto, Zenon
    <2>5. WorkStep
      BY <1>1, <1>3, <1>5, WorkRest, Zenon DEF workVars
    <2>6. BlobStep
      <3>1. h \notin torn => ref[h] = 0
        BY <1>2, <1>8, Zenon DEF IInv, Ensured
      <3> QED
        BY <1>5, <1>8, <2>1, <2>2, <2>3, <3>1, SMTT(30) DEF BlobStep, IInv, Ensured
    <2>7. BlobTypes'
      BY <1>2, <1>8, <2>1, Zenon DEF BlobTypes, IInv, TypeOK
    <2>8. TypeOK'
      BY <1>1, <1>4, <1>5, <1>6, <2>7, TypesRest, Zenon DEF TypeOK, GhostTypes
    <2> QED
      BY <1>3, <1>9, <2>4, <2>5, <2>6, <2>8, PartsKeep, Zenon
  <1> QED
    BY <1>7, <1>8, Zenon DEF Upsert

\* The reference is added: from now on the file is pinned.
LEMMA KeepsIncRef ==
  ASSUME IInv, NEW p \in Proc, IncRef(p)
  PROVE  IInv'
  <1> DEFINE f == job[p].f
             h == FileOf(p).hash
  <1>1. /\ pc[p] = "ref" /\ Goto(p, "commit")
        /\ UNCHANGED <<rowVars, storeVars, blob, total, aged, used, workVars, loose>>
    BY Zenon DEF IncRef
  <1>2. f \in File /\ status[f] # "none" /\ FileOf(p) \in Upload /\ file[f] = FileOf(p) /\ h \in Hash
    BY <1>1, Own, Zenon
  <1>3. UNCHANGED <<status, file, place, blob, aged, wpc, todo, cur>>
    BY <1>1, Zenon DEF rowVars, workVars
  <1>4. ASSUME NEW q \in Proc
        PROVE  pc'[q] = (IF q = p THEN "commit" ELSE pc[q]) /\ job'[q] = job[q]
    BY <1>1, Zenon DEF Goto, IInv, TypeOK, JobTypes
  <1>5. /\ torn \subseteq torn' /\ torn' \subseteq torn \cup {h}
        /\ h \notin torn' => ref' = [ref EXCEPT ![h] = @ + 1]
        /\ ref' \in [Hash -> Nat]
        /\ \A g \in Hash \ {h} : ref'[g] = ref[g]
    <2>1. h \notin torn => blob[h] # None
      BY <1>1, Zenon DEF IInv, Ensured, Based
    <2>2. ref \in [Hash -> Nat]
      BY Zenon DEF IInv, TypeOK, BlobTypes
    <2> QED
      BY <1>2, <2>1, <2>2, SMTT(30) DEF IncRef
  <1>6. TypeOK'
    <2>1. JobTypes'
      BY <1>1, GotoType, Zenon DEF Step
    <2>2. BlobTypes'
      BY <1>1, <1>5, Zenon DEF IInv, TypeOK, BlobTypes
    <2>3. faults' \in Nat
      BY FaultType, Zenon DEF IncRef
    <2>4. torn' \subseteq Hash
      BY <1>2, <1>5, Zenon DEF IInv, TypeOK, GhostTypes
    <2> QED
      BY <1>1, <2>1, <2>2, <2>3, <2>4, TypesRest, Zenon DEF TypeOK, GhostTypes
  <1>7. Filled'
    BY <1>2, <1>3, <1>4, Zenon DEF IInv, Filled, FileOf
  <1>8. Keyed'
    BY <1>1, <1>3, KeyedGoto, Zenon DEF Completing
  <1>9. Working'
    BY <1>3, <1>5, Zenon DEF IInv, Working, Good
  <1>10. Ensured'
    <2>1. ASSUME NEW g \in Hash \ torn', blob[g] # None, ref'[g] = 0
          PROVE  \E q \in Proc : pc'[q] = "ref" /\ file[job'[q].f].hash = g
      <3>1. g # h
        BY <1>2, <1>5, <2>1, SMTT(30) DEF IInv, TypeOK, BlobTypes
      <3>2. PICK q \in Proc : pc[q] = "ref" /\ FileOf(q).hash = g
        BY <1>5, <2>1, <3>1, Zenon DEF IInv, Ensured
      <3> QED
        BY <1>4, <3>1, <3>2, Zenon DEF FileOf
    <2>2. ASSUME NEW q \in Proc, pc'[q] \in Based, file[job'[q].f].hash \notin torn'
          PROVE  blob[file[job'[q].f].hash] # None
      BY <1>4, <1>5, <2>2, Zenon DEF IInv, Ensured, FileOf, Based
    <2>3. ASSUME NEW g \in Hash \ torn', blob[g] = None
          PROVE  ref'[g] = 0
      <3>1. g # h
        BY <1>1, <1>5, <2>3, Zenon DEF IInv, Ensured, Based
      <3> QED
        BY <1>5, <2>3, <3>1, Zenon DEF IInv, Ensured
    <2>4. aged' \subseteq torn'
      BY <1>3, <1>5, Zenon DEF IInv, Ensured
    <2> QED
      BY <1>3, <2>1, <2>2, <2>3, <2>4, Zenon DEF Ensured, FileOf
  <1>11. Covered'
    <2>1. ASSUME NEW x \in File, Pin(x)'
          PROVE  Pin(x) \/ x = f
      BY <1>3, <1>4, <2>1, Zenon DEF Pin
    <2>2. ASSUME NEW g \in Hash
          PROVE  /\ Pinned(g)' \subseteq Pinned(g) \cup {f}
                 /\ g # h => Pinned(g)' \subseteq Pinned(g)
      BY <1>2, <1>3, <2>1, Zenon DEF Pinned
    <2> SUFFICES ASSUME NEW g \in Hash \ torn'
                 PROVE  Cardinality(Pinned(g)') <= ref'[g] /\ (Pinned(g)' # {} => blob'[g] # None)
      BY Zenon DEF Covered
    <2>3. /\ Cardinality(Pinned(g)) <= ref[g] /\ (Pinned(g) # {} => blob[g] # None)
          /\ ref[g] \in Nat
      BY <1>5, Zenon DEF IInv, Covered, TypeOK, BlobTypes
    <2>4. IsFiniteSet(Pinned(g)) /\ IsFiniteSet(Pinned(g)')
      BY FilesFinite, FS_Subset, Zenon DEF Pinned
    <2>5. Cardinality(Pinned(g)) \in Nat /\ Cardinality(Pinned(g)') \in Nat
      BY <2>4, FS_CardinalityType, Zenon
    <2>6. CASE g = h
      <3>1. ref'[g] = ref[g] + 1
        BY <1>2, <1>5, <2>6, Zenon DEF IInv, TypeOK, BlobTypes
      <3>2. blob[g] # None
        BY <1>1, <1>5, <2>6, Zenon DEF IInv, Ensured, Based
      <3>3. /\ IsFiniteSet(Pinned(g) \cup {f})
            /\ Cardinality(Pinned(g) \cup {f}) <= Cardinality(Pinned(g)) + 1
            /\ Cardinality(Pinned(g) \cup {f}) \in Nat
        <4>1. /\ IsFiniteSet(Pinned(g) \cup {f})
              /\ Cardinality(Pinned(g) \cup {f}) =
                 IF f \in Pinned(g) THEN Cardinality(Pinned(g)) ELSE Cardinality(Pinned(g)) + 1
          BY <2>4, FS_AddElement, Zenon
        <4> QED
          BY <2>5, <4>1, SMTT(30)
      <3>4. Cardinality(Pinned(g)') <= Cardinality(Pinned(g) \cup {f})
        BY <2>2, <3>3, FS_Subset, Zenon
      <3> QED
        BY <1>3, <2>3, <2>5, <3>1, <3>2, <3>3, <3>4, SMTT(30)
    <2>7. CASE g # h
      <3>1. ref'[g] = ref[g] /\ Pinned(g)' \subseteq Pinned(g)
        BY <1>5, <2>2, <2>7, Zenon
      <3>2. Cardinality(Pinned(g)') <= Cardinality(Pinned(g))
        BY <2>4, <3>1, FS_Subset, Zenon
      <3> QED
        BY <1>3, <2>3, <2>5, <3>1, <3>2, SMTT(30)
    <2> QED
      BY <2>6, <2>7, Zenon
  <1> QED
    BY <1>6, <1>7, <1>8, <1>9, <1>10, <1>11, Zenon DEF IInv

\* Commit keeps the invariant: the file is pinned since its reference was added.
LEMMA KeepsCommit ==
  ASSUME IInv, NEW p \in Proc, Commit(p)
  PROVE  IInv'
  <1>1. /\ pc[p] = "commit" /\ Goto(p, "charge")
        /\ UNCHANGED <<file, place, late, storeVars, blobVars, used, workVars, torn>>
    BY Zenon DEF Commit
  <1>2. /\ job[p].f \in File /\ file[job[p].f] \in Upload /\ FileOf(p).owner \in User
    BY <1>1, Own, Zenon
  <1>3. Pin(job[p].f)
    BY <1>1, Zenon DEF Pin
  <1>4. SetStatus(job[p].f, "COMMITTED") \/ UNCHANGED status
    BY Zenon DEF Commit
  <1>5. RowStep
    BY <1>1, <1>2, <1>3, <1>4, PinnedStatusStep, RowsRest, Zenon DEF Final
  <1>6. JobStep
    BY <1>1, <1>5, JobGoto, Zenon DEF Based
  <1>7. JobTypes' /\ RowTypes'
    BY <1>1, <1>4, GotoType, StatusType, TypesRest, Zenon DEF Step, rowVars
  <1>8. faults' \in Nat /\ loose' \subseteq User
    BY <1>2, FaultType, Zenon DEF Commit, IInv, TypeOK, GhostTypes
  <1>9. Keyed'
    BY <1>1, KeyedGoto, Zenon DEF Completing
  <1> QED
    BY <1>1, <1>5, <1>6, <1>7, <1>8, <1>9, TypesRest, HandlerKeeps, Zenon

\* Charge keeps the invariant.
LEMMA KeepsCharge ==
  ASSUME IInv, NEW p \in Proc, Charge(p)
  PROVE  IInv'
  <1>1. /\ pc[p] = "charge" /\ Finish(p)
        /\ UNCHANGED <<rowVars, storeVars, blobVars, workVars, torn, loose>>
    BY Zenon DEF Charge
  <1>2. FileOf(p).owner \in User /\ FileOf(p).size \in Nat
    BY <1>1, Own, MediaAssumption, Zenon DEF MediaAssumption
  <1>3. RowStep
    BY <1>1, RowsRest, Zenon DEF rowVars
  <1>4. JobStep /\ JobTypes' /\ Keyed'
    BY <1>1, <1>3, JobFinish, FinishType, KeyedFinish, Zenon DEF rowVars
  <1>5. used' \in [User -> Nat]
    BY <1>2, SMTT(30) DEF Charge, IInv, TypeOK
  <1>6. faults' \in Nat
    BY FaultType, Zenon DEF Charge
  <1> QED
    BY <1>1, <1>3, <1>4, <1>5, <1>6, TypesRest, HandlerKeeps, Zenon

\* A crash keeps the invariant: a reference not added tears the content.
LEMMA KeepsCrash ==
  ASSUME IInv, NEW p \in Proc, Crash(p)
  PROVE  IInv'
  <1>1. /\ pc[p] # "idle" /\ Finish(p)
        /\ UNCHANGED <<file, place, late, object, uploads, blobVars, used, workVars, loose>>
    BY Zenon DEF Crash
  <1>2. job[p].f \in File /\ file[job[p].f] \in Upload /\ FileOf(p).hash \in Hash
    BY <1>1, Own, Zenon
  <1>3. SetStatus(job[p].f, "refused") \/ UNCHANGED status
    BY Zenon DEF Crash
  <1>4. RowStep
    BY <1>1, <1>2, <1>3, StatusStep, RowsRest, Zenon
  <1>5. /\ torn \subseteq torn' /\ torn' \subseteq Hash
        /\ pc[p] = "ref" => FileOf(p).hash \in torn'
    BY <1>2, Zenon DEF Crash, IInv, TypeOK, GhostTypes
  <1>6. JobStep
    BY <1>1, <1>4, <1>5, JobFinish, Zenon
  <1>7. JobTypes' /\ RowTypes' /\ Keyed'
    BY <1>1, <1>3, FinishType, StatusType, KeyedFinish, TypesRest, Zenon DEF rowVars
  <1>8. StoreTypes'
    BY <1>1, Zenon DEF Crash, IInv, TypeOK, StoreTypes
  <1>9. faults' \in Nat
    BY FaultType, Zenon DEF Crash
  <1> QED
    BY <1>1, <1>4, <1>5, <1>6, <1>7, <1>8, <1>9, TypesRest, HandlerKeeps, Zenon

\* AgeBlob keeps the invariant: only a torn blob has neither reference nor handler.
LEMMA KeepsAgeBlob ==
  ASSUME IInv, NEW h \in Hash, AgeBlob(h)
  PROVE  IInv'
  <1>1. UNCHANGED <<rowVars, storeVars, blob, ref, total, used, jobVars, workVars, faults, torn, loose>>
    BY Zenon DEF AgeBlob
  <1>2. h \in torn
    BY Zenon DEF AgeBlob, IInv, Ensured
  <1>3. RowStep /\ JobStep /\ Keyed'
    BY <1>1, RowsRest, JobsRest, KeyedRest, Zenon DEF rowVars
  <1>4. WorkStep
    BY <1>1, <1>3, WorkRest, Zenon DEF workVars
  <1>5. BlobStep
    BY <1>1, <1>2, Zenon DEF AgeBlob, BlobStep, IInv, Ensured
  <1>6. BlobTypes'
    BY <1>1, Zenon DEF AgeBlob, BlobTypes, IInv, TypeOK
  <1>7. TypeOK'
    BY <1>1, <1>6, TypesRest, Zenon DEF TypeOK, GhostTypes
  <1> QED
    BY <1>3, <1>4, <1>5, <1>7, PartsKeep, Zenon

-----------------------------------------------------------------------------
(* Steps of the clean-up worker *)

\* A step that leaves handlers and blobs alone.
LEMMA WorkerKeeps ==
  ASSUME IInv, RowStep, WorkStep, UNCHANGED <<file, place, late, url, blobVars, jobVars, torn, loose>>,
         RowTypes', StoreTypes', WorkTypes', used' \in [User -> Nat], faults' \in Nat
  PROVE  IInv'
  <1>1. JobStep /\ Keyed'
    BY JobsRest, KeyedRest, Zenon
  <1>2. BlobStep
    BY BlobsRest, Zenon DEF blobVars
  <1>3. TypeOK'
    BY TypesRest, Zenon DEF TypeOK, GhostTypes
  <1> QED
    BY <1>1, <1>2, <1>3, PartsKeep, Zenon

\* A committed row is pinned.
LEMMA CommittedRow ==
  ASSUME IInv, NEW f \in File, status[f] = "COMMITTED"
  PROVE  Pin(f) /\ file[f] \in Upload
  BY Zenon DEF Pin, Final, IInv, Filled

\* The lists of the worker keep the invariant: committed rows are pinned, old blobs torn.
LEMMA KeepsList ==
  ASSUME IInv,
         ListPending \/ ListQuarantined \/ ListUploads \/ ListUnref \/ ListCommitted
  PROVE  IInv'
  <1>1. PICK list : ListRows(list) /\ \A r \in list :
            /\ r[3] \in Tags
            /\ r[3] = "blob" => r[1] \in aged
            /\ r[3] = "COMMITTED" => r[1] \in File /\ status[r[1]] = "COMMITTED"
    <2>1. ASSUME NEW s \in {"PENDING", "QUARANTINED"}, ListRows(Rows(s))
          PROVE  \A r \in Rows(s) : r[3] = s
      BY SMTT(30) DEF Rows
    <2>2. CASE ListPending \/ ListQuarantined
      <3>1. PICK s \in {"PENDING", "QUARANTINED"} : ListRows(Rows(s))
        BY <2>2, Zenon DEF ListPending, ListQuarantined
      <3>2. \A r \in Rows(s) : r[3] \in Tags \ {"blob", "COMMITTED"}
        BY <2>1, <3>1, Zenon DEF Tags
      <3> QED
        BY <3>1, <3>2, Zenon
    <2>3. CASE ListUploads
      BY <2>3, SMTT(30) DEF ListUploads, Tags
    <2>4. CASE ListUnref
      BY <2>4, SMTT(30) DEF ListUnref, Tags
    <2>5. CASE ListCommitted
      BY <2>5, SMTT(30) DEF ListCommitted, Tags
    <2> QED
      BY <2>2, <2>3, <2>4, <2>5, Zenon
  <1>2. /\ Take(list)
        /\ UNCHANGED <<cursor, rowVars, storeVars, blobVars, used, jobVars, faults, torn, loose>>
    BY <1>1, Zenon DEF ListRows
  <1>3. RowStep
    BY <1>2, RowsRest, Zenon DEF rowVars
  <1>4. \A r \in list : GoodNext(r)
    BY <1>1, <1>2, CommittedRow, Zenon DEF GoodNext, IInv, Ensured, rowVars
  <1>5. WorkStep
    BY <1>2, <1>4, WorkTake, Zenon
  <1>6. WorkTypes'
    BY <1>1, <1>2, TakeType, Zenon DEF IInv, TypeOK, WorkTypes
  <1> QED
    BY <1>2, <1>3, <1>5, <1>6, TypesRest, WorkerKeeps, Zenon DEF rowVars, storeVars

\* The types after the worker goes on with its row.
LEMMA WGotoType ==
  ASSUME IInv, NEW l \in {"delete", "abort", "mark", "row", "refund", "erase", "taint"}, WGoto(l)
  PROVE  WorkTypes'
  BY Zenon DEF WGoto, IInv, TypeOK, WorkTypes

\* The worker looks at rows and the object store, and changes no row.
LEMMA KeepsWorkerLook ==
  ASSUME IInv, \/ WorkerBlob \/ WorkerDelete \/ WorkerAbort \/ WorkerOrphan
               \/ WorkerRow \/ WorkerUnref \/ WorkerSniff
  PROVE  IInv'
  <1>1. UNCHANGED <<rowVars, url, blobVars, used, jobVars, torn, loose>>
    BY Zenon DEF WorkerBlob, WorkerDelete, WorkerAbort, WorkerOrphan, WorkerRow, WorkerUnref,
           WorkerSniff, storeVars
  <1>2. RowStep /\ torn \subseteq torn'
    BY <1>1, RowsRest, Zenon DEF rowVars
  <1>3. \/ wpc # "idle" /\ \E l \in {"delete", "abort", "mark", "row"} : WGoto(l)
        \/ wpc = "unref" /\ WGoto("refund")
        \/ wpc = "sniff" /\ WGoto("taint")
        \/ WNext /\ UNCHANGED cursor
        \/ wpc = "sniff" /\ WNext /\ cursor' = cur[1]
    BY Zenon DEF WorkerBlob, WorkerDelete, WorkerAbort, WorkerOrphan, WorkerRow, WorkerUnref,
           WorkerSniff
  <1>4. WorkStep
    <2>1. CASE wpc # "idle" /\ \E l \in {"delete", "abort", "mark", "row"} : WGoto(l)
      BY <1>2, <2>1, WorkGoto, Zenon
    <2>2. CASE (wpc = "unref" /\ WGoto("refund")) \/ (wpc = "sniff" /\ WGoto("taint"))
      <3>1. (wpc = "unref" => cur[3] = "blob") /\ (wpc = "sniff" => cur[3] = "COMMITTED")
        BY Zenon DEF IInv, Working
      <3> QED
        BY <1>2, <2>2, <3>1, WorkGoto, Zenon
    <2>3. CASE WNext
      BY <1>2, <2>3, WorkNext, Zenon
    <2> QED
      BY <1>3, <2>1, <2>2, <2>3, Zenon
  <1>5. WorkTypes'
    <2>1. wpc = "sniff" => cur[1] \in 0..MaxFiles
      BY MediaAssumption, SMTT(30) DEF MediaAssumption, IInv, Working, Good, File
    <2>2. cursor \in 0..MaxFiles
      BY Zenon DEF IInv, TypeOK, WorkTypes
    <2> QED
      BY <1>3, <2>1, <2>2, WGotoType, NextType, Zenon
  <1>6. StoreTypes' /\ faults' \in Nat
    <2>1. CASE WorkerBlob \/ WorkerRow \/ WorkerSniff
      BY <2>1, FaultType, TypesRest, Zenon DEF WorkerBlob, WorkerRow, WorkerSniff
    <2>2. CASE WorkerDelete
      BY <2>2, TryDeleteType, Zenon DEF WorkerDelete
    <2>3. CASE WorkerAbort \/ WorkerOrphan
      <3>1. faults' \in Nat
        BY <2>3, FaultType, Zenon DEF WorkerAbort, WorkerOrphan
      <3> QED
        BY <2>3, <3>1, Zenon DEF WorkerAbort, WorkerOrphan, IInv, TypeOK, StoreTypes
    <2>4. CASE WorkerUnref
      <3>1. faults' \in Nat
        BY <2>4, FaultType, Zenon DEF WorkerUnref
      <3>2. object' \in [Key -> Length \cup {0}]
        BY <2>4, ObjectType, Zenon DEF WorkerUnref, IInv, TypeOK, StoreTypes
      <3> QED
        BY <2>4, <3>1, <3>2, Zenon DEF WorkerUnref, IInv, TypeOK, StoreTypes
    <2> QED
      BY <2>1, <2>2, <2>3, <2>4, Zenon
  <1> QED
    BY <1>1, <1>2, <1>4, <1>5, <1>6, TypesRest, WorkerKeeps, Zenon DEF rowVars

\* WorkerMark and WorkerTaint keep the invariant: a row quarantined was pinned.
LEMMA KeepsWorkerMark ==
  ASSUME IInv, WorkerMark \/ WorkerTaint
  PROVE  IInv'
  <1>1. /\ WNext
        /\ UNCHANGED <<file, place, late, storeVars, blobVars, used, jobVars, torn, loose>>
    BY Zenon DEF WorkerMark, WorkerTaint
  <1>2. wpc = "taint" => cur[1] \in File /\ Pin(cur[1]) /\ file[cur[1]] \in Upload
    BY Zenon DEF IInv, Working, Good, Pin
  <1>3. wpc = "taint" => cur[1] \in 0..MaxFiles
    BY <1>2, MediaAssumption, SMTT(30) DEF MediaAssumption, File
  <1>4. \/ UNCHANGED status
        \/ SetStatus(cur[1], "DELETED")
        \/ wpc = "taint" /\ SetStatus(cur[1], "QUARANTINED")
    BY Zenon DEF WorkerMark, WorkerTaint, TryStatus
  <1>5. RowStep
    <2>1. CASE wpc = "taint" /\ SetStatus(cur[1], "QUARANTINED")
      BY <1>1, <1>2, <2>1, PinnedStatusStep, Zenon DEF Final
    <2> QED
      BY <1>1, <1>4, <2>1, StatusStep, RowsRest, Zenon
  <1>6. RowTypes'
    BY <1>1, <1>4, StatusType, TypesRest, Zenon DEF rowVars
  <1>7. WorkStep
    BY <1>1, <1>5, WorkNext, Zenon
  <1>8. WorkTypes'
    BY <1>1, <1>3, NextType, Zenon DEF WorkerMark, WorkerTaint, IInv, TypeOK, WorkTypes
  <1>9. faults' \in Nat
    BY FaultType, Zenon DEF WorkerMark, WorkerTaint, TryStatus
  <1> QED
    BY <1>1, <1>5, <1>6, <1>7, <1>8, <1>9, TypesRest, WorkerKeeps, Zenon DEF storeVars

\* WorkerRefund keeps the invariant.
LEMMA KeepsWorkerRefund ==
  ASSUME IInv, WorkerRefund
  PROVE  IInv'
  <1>1. /\ wpc = "refund" /\ WGoto("erase")
        /\ UNCHANGED <<rowVars, storeVars, blobVars, jobVars, torn, loose>>
    BY Zenon DEF WorkerRefund
  <1>2. cur[3] = "blob" /\ cur[1] \in Hash
    BY <1>1, Zenon DEF IInv, Working, Good, TypeOK, GhostTypes
  <1>3. RowStep
    BY <1>1, RowsRest, Zenon DEF rowVars
  <1>4. WorkStep
    BY <1>1, <1>2, <1>3, WorkGoto, Zenon
  <1>5. WorkTypes'
    BY <1>1, WGotoType, Zenon
  <1>6. used' \in [User -> Nat]
    <2>1. total[cur[1]] \in Nat
      <3>1. total[cur[1]] \in Size \cup {0}
        BY <1>2, Zenon DEF IInv, TypeOK, BlobTypes
      <3> QED
        BY <3>1, SizesNat, Zenon
    <2>2. ASSUME NEW u \in User, NEW n \in Nat
          PROVE  Refund(u, total[cur[1]] * n) \in Nat
      <3>1. total[cur[1]] * n \in Nat /\ used[u] \in Nat
        BY <2>1, SMTT(30) DEF IInv, TypeOK
      <3> QED
        BY <3>1, SMTT(30) DEF Refund
    <2>3. ASSUME NEW u \in User
          PROVE  Cardinality(Dead(u, cur[1])) \in Nat
      BY FilesFinite, FS_Subset, FS_CardinalityType, Zenon DEF Dead
    <2>4. 0..MaxFiles \subseteq Nat
      OBVIOUS
    <2>5. CASE used' = [u \in User |-> Refund(u, total[cur[1]] * Cardinality(Dead(u, cur[1])))]
      BY <2>2, <2>3, <2>5, Zenon
    <2>6. CASE \E dead \in [User -> 0..MaxFiles] :
                  used' = [u \in User |-> Refund(u, total[cur[1]] * dead[u])]
      BY <2>2, <2>4, <2>6, Zenon
    <2> QED
      BY <2>5, <2>6, Zenon DEF WorkerRefund
  <1>7. faults' \in Nat
    BY FaultType, Zenon DEF WorkerRefund
  <1> QED
    BY <1>1, <1>3, <1>4, <1>5, <1>6, <1>7, TypesRest, WorkerKeeps, Zenon DEF rowVars, storeVars

\* The blob row goes: its content is torn.
LEMMA KeepsWorkerErase ==
  ASSUME IInv, WorkerErase
  PROVE  IInv'
  <1>1. /\ wpc = "erase" /\ WNext
        /\ UNCHANGED <<cursor, rowVars, storeVars, used, jobVars, torn, loose>>
    BY Zenon DEF WorkerErase
  <1>2. cur[1] \in torn
    BY <1>1, Zenon DEF IInv, Working, Good
  <1>3. RowStep /\ JobStep /\ Keyed'
    BY <1>1, RowsRest, JobsRest, KeyedRest, Zenon DEF rowVars
  <1>4. WorkStep
    BY <1>1, <1>3, WorkNext, Zenon
  <1>5. ASSUME NEW g \in Hash \ torn
        PROVE  blob'[g] = blob[g] /\ ref'[g] = ref[g]
    BY <1>2, Zenon DEF WorkerErase, IInv, TypeOK, BlobTypes, blobVars
  <1>6. aged' \subseteq aged
    BY Zenon DEF WorkerErase, blobVars
  <1>7. BlobStep
    BY <1>1, <1>5, <1>6, Zenon DEF BlobStep, IInv, Ensured
  <1>8. BlobTypes'
    BY SMTT(30) DEF WorkerErase, IInv, TypeOK, BlobTypes, blobVars
  <1>9. WorkTypes'
    BY <1>1, NextType, Zenon DEF IInv, TypeOK, WorkTypes
  <1>10. faults' \in Nat
    BY FaultType, Zenon DEF WorkerErase
  <1>11. TypeOK'
    BY <1>1, <1>8, <1>9, <1>10, TypesRest, Zenon DEF TypeOK, GhostTypes
  <1> QED
    BY <1>3, <1>4, <1>7, <1>11, PartsKeep, Zenon

\* WorkerCrash keeps the invariant.
LEMMA KeepsWorkerCrash ==
  ASSUME IInv, WorkerCrash
  PROVE  IInv'
  <1>1. /\ wpc' = "idle" /\ todo' = {} /\ cur' = None /\ cursor' \in {0, cursor}
        /\ UNCHANGED <<rowVars, storeVars, blobVars, used, jobVars, torn, loose>>
    BY Zenon DEF WorkerCrash
  <1>2. RowStep
    BY <1>1, RowsRest, Zenon DEF rowVars
  <1>3. WorkStep
    BY <1>1, Zenon DEF WorkStep
  <1>4. WorkTypes'
    BY <1>1, MediaAssumption, SMTT(30) DEF MediaAssumption, IInv, TypeOK, WorkTypes
  <1>5. faults' \in Nat
    BY FaultType, Zenon DEF WorkerCrash
  <1> QED
    BY <1>1, <1>2, <1>3, <1>4, <1>5, TypesRest, WorkerKeeps, Zenon DEF rowVars, storeVars

-----------------------------------------------------------------------------
(* The theorems *)

\* The invariant holds at first.
LEMMA InitKeeps ==
  ASSUME Init
  PROVE  IInv
  <1>1. TypeOK
    <2>1. RowTypes
      BY Zenon DEF Init, RowTypes
    <2>2. StoreTypes
      BY Zenon DEF Init, StoreTypes
    <2>3. BlobTypes
      BY Zenon DEF Init, BlobTypes
    <2>4. JobTypes
      BY NoJobType, Zenon DEF Init, JobTypes, Step
    <2>5. WorkTypes /\ GhostTypes /\ used \in [User -> Nat]
      BY MediaAssumption, SMTT(30) DEF MediaAssumption, Init, WorkTypes, GhostTypes
    <2> QED
      BY <2>1, <2>2, <2>3, <2>4, <2>5, Zenon DEF TypeOK
  <1>2. Filled /\ Working /\ Ensured
    BY Zenon DEF Init, Filled, Working, Ensured, Based
  <1>3. Keyed
    <2>1. NoFile \notin Upload
      <3>1. 0 \notin Size
        BY MediaAssumption, Zenon DEF MediaAssumption
      <3> QED
        BY <3>1, Zenon DEF NoFile, Upload
    <2> QED
      BY <2>1, Zenon DEF Init, Keyed, Completing
  <1>4. Covered
    <2>1. ASSUME NEW h \in Hash
          PROVE  Pinned(h) = {}
      BY Zenon DEF Init, Pinned, Pin, Final
    <2> QED
      BY <2>1, FS_EmptySet, SMTT(30) DEF Covered, Init
  <1> QED
    BY <1>1, <1>2, <1>3, <1>4, Zenon DEF IInv

\* Every step keeps the invariant.
LEMMA NextKeeps ==
  ASSUME IInv, [Next]_vars
  PROVE  IInv'
  <1>1. ASSUME NEW p \in Proc, Request(p)
        PROVE  IInv'
    BY <1>1, KeepsApplyEnsure, KeepsStart, Zenon DEF Request
  <1>2. ASSUME NEW p \in Proc, Handle(p)
        PROVE  IInv'
    BY <1>2, KeepsCheckQuota, KeepsDedup, KeepsInsert, KeepsObjects, KeepsDrop,
       KeepsSelectBlob, KeepsMove, KeepsUpsert, KeepsIncRef, KeepsCommit, KeepsCharge, Zenon
    DEF Handle
  <1>3. CASE Clean
    BY <1>3, KeepsList, KeepsWorkerLook, KeepsWorkerMark, KeepsWorkerRefund,
       KeepsWorkerErase, Zenon DEF Clean
  <1>4. CASE UNCHANGED vars
    <2>1. RowStep /\ JobStep /\ Keyed'
      BY <1>4, RowsRest, JobsRest, KeyedRest, Zenon DEF vars, rowVars
    <2> QED
      BY <1>4, <2>1, TypesRest, HandlerKeeps, Zenon DEF vars
  <1> QED
    BY <1>1, <1>2, <1>3, <1>4, KeepsCrash, KeepsAge, KeepsClientPut, KeepsAgeBlob,
       KeepsWorkerCrash, Zenon DEF Next

\* The invariant holds for any number of files, contents, handlers and faults:
\* pinned files are covered by references, and a blob without a reference waits
\* for a handler that adds one (CompleteUpload, upsert and inc_ref; the tasks of
\* the clean-up worker).
THEOREM MediaInvariance == Spec => []IInv
  BY InitKeeps, NextKeeps, PTL DEF Spec

\* The variables of the Media service keep their types.
THEOREM TypeCorrect == Spec => []TypeOK
  <1>1. IInv => TypeOK
    BY Zenon DEF IInv
  <1> QED
    BY <1>1, MediaInvariance, PTL

\* However uploads of one content, retries of CompleteUpload and the clean-up
\* overlap, the reference count of a content that no fault has torn covers its
\* committed and quarantined files, and their blob is there
\* (mysql_media_blob_ref.hpp; cleanup_worker.hpp, task_unref_blob_gc).
THEOREM ReferencesSafe == Spec => []ReferencesCoverFiles
  <1>1. ASSUME IInv
        PROVE  ReferencesCoverFiles
    <2> SUFFICES ASSUME NEW h \in Hash \ torn
                 PROVE  /\ Cardinality(Counted(h)) <= ref[h]
                        /\ Counted(h) # {} => blob[h] # None
      BY Zenon DEF ReferencesCoverFiles
    <2>1. Counted(h) \subseteq Pinned(h)
      BY Zenon DEF Counted, Pinned, Pin, Final
    <2>2. IsFiniteSet(Pinned(h))
      BY FilesFinite, FS_Subset, Zenon DEF Pinned
    <2>3. Cardinality(Counted(h)) <= Cardinality(Pinned(h))
      BY <2>1, <2>2, FS_Subset, Zenon
    <2>4. Cardinality(Counted(h)) \in Nat /\ Cardinality(Pinned(h)) \in Nat
      BY <2>1, <2>2, FS_Subset, FS_CardinalityType, Zenon
    <2>5. /\ Cardinality(Pinned(h)) <= ref[h] /\ (Pinned(h) # {} => blob[h] # None)
          /\ ref[h] \in Nat
      BY <1>1, Zenon DEF IInv, Covered, TypeOK, BlobTypes
    <2>6. Counted(h) # {} => Pinned(h) # {}
      BY <2>1, Zenon
    <2> QED
      BY <2>3, <2>4, <2>5, <2>6, SMTT(30)
  <1> QED
    BY <1>1, MediaInvariance, PTL

-----------------------------------------------------------------------------
(* The quota.  A handler that has passed the test of the quota, or completes *)
(* a pending file, will need the space of its file even if the clean-up      *)
(* marks the row meanwhile: that space is owed, like that of a pending row.  *)

Owing == {"dedup", "insert", "join", "head", "check", "blob", "rekey", "move",
          "upsert", "ref", "commit", "charge"}

\* The files of u that are pending or that a handler needs space for.
Owed(u) ==
    {f \in File : /\ file[f].owner = u
                  /\ \/ status[f] = "PENDING"
                     \/ \E p \in Proc : pc[p] \in Owing /\ job[p].f = f}

\* Requests of one user overlap only if the user is loose.
Alone ==
    \A p, q \in Proc :
        /\ p # q /\ pc[p] # "idle" /\ pc[q] # "idle"
        /\ FileOf(p).owner = FileOf(q).owner
        => FileOf(p).owner \in loose

\* What a request has read is no less than the space taken.
Seen ==
    \A p \in Proc : pc[p] = "quota" /\ FileOf(p).owner \notin loose =>
        used[FileOf(p).owner] <= job[p].used

\* A row that is charged for is not pending any more.
Settled ==
    \A p \in Proc : pc[p] = "charge" /\ FileOf(p).owner \notin loose =>
        status[job[p].f] # "PENDING"

\* The space taken and owed is within the quota.
Within == \A u \in User \ loose : used[u] + Cardinality(Bytes(Owed(u))) <= Quota

QInv == Alone /\ Seen /\ Settled /\ Within

\* Sizes of files are numbers.
LEMMA FileSizes ==
  ASSUME IInv, NEW f \in File
  PROVE  file[f].size \in Nat
  <1>1. file[f] \in Upload \/ file[f] = NoFile
    BY Zenon DEF IInv, TypeOK, RowTypes
  <1>2. file[f].size \in Size \cup {0}
    BY <1>1, SMTT(30) DEF Upload, NoFile
  <1> QED
    BY <1>2, SizesNat, Zenon

\* The bytes of one file are as many as its size.
LEMMA OneFile ==
  ASSUME NEW f, NEW n \in Nat
  PROVE  IsFiniteSet({f} \X (1..n)) /\ Cardinality({f} \X (1..n)) = n
  <1>1. IsFiniteSet({f}) /\ Cardinality({f}) = 1
    BY FS_Singleton, Zenon
  <1>2. IsFiniteSet(1..n) /\ Cardinality(1..n) = n
    <2>1. 1 \in Int /\ n \in Int
      BY SMTT(30)
    <2>2. IsFiniteSet(1..n) /\ Cardinality(1..n) = IF 1 > n THEN 0 ELSE n - 1 + 1
      BY <2>1, FS_Interval, Zenon
    <2> QED
      BY <2>2, SMTT(30)
  <1>3. /\ IsFiniteSet({f} \X (1..n))
        /\ Cardinality({f} \X (1..n)) = Cardinality({f}) * Cardinality(1..n)
    BY <1>1, <1>2, FS_Product, Zenon
  <1>4. Cardinality({f} \X (1..n)) = 1 * n
    BY <1>1, <1>2, <1>3, Zenon
  <1> QED
    BY <1>3, <1>4, SMTT(30)

\* Finitely many files have finitely many bytes.
LEMMA BytesFinite ==
  ASSUME IInv, NEW fs \in SUBSET File
  PROVE  IsFiniteSet(Bytes(fs)) /\ Cardinality(Bytes(fs)) \in Nat
  <1> DEFINE parts == {{f} \X (1..file[f].size) : f \in fs}
             part == [f \in fs |-> {f} \X (1..file[f].size)]
  <1>1. IsFiniteSet(fs)
    BY FilesFinite, FS_Subset, Zenon
  <1>2. part \in Surjection(fs, parts)
    BY Zenon DEF Surjection
  <1>3. IsFiniteSet(parts)
    <2> HIDE DEF parts, part
    <2> QED
      BY <1>1, <1>2, FS_Surjection, Zenon
  <1>4. \A s \in parts : IsFiniteSet(s)
    <2>1. ASSUME NEW f \in fs
          PROVE  IsFiniteSet({f} \X (1..file[f].size))
      <3>1. file[f].size \in Nat
        BY FileSizes, Zenon
      <3> QED
        BY <3>1, OneFile, Zenon
    <2> QED
      BY <2>1, Zenon
  <1>5. IsFiniteSet(UNION parts)
    <2> HIDE DEF parts
    <2> QED
      BY <1>3, <1>4, FS_UNION, Zenon
  <1> QED
    BY <1>5, FS_CardinalityType, Zenon DEF Bytes

\* A file among others has its own bytes and leaves theirs.
LEMMA BytesRemove ==
  ASSUME IInv, NEW fs \in SUBSET File, NEW f \in fs
  PROVE  Cardinality(Bytes(fs \ {f})) + file[f].size = Cardinality(Bytes(fs))
  <1> DEFINE own == {f} \X (1..file[f].size)
             rest == Bytes(fs \ {f})
  <1>1. Bytes(fs) = rest \cup own
    BY Zenon DEF Bytes
  <1>2. rest \cap own = {}
    BY SMTT(30) DEF Bytes
  <1>3. IsFiniteSet(own) /\ Cardinality(own) = file[f].size /\ file[f].size \in Nat
    BY FileSizes, OneFile, Zenon
  <1>4. IsFiniteSet(rest) /\ Cardinality(rest) \in Nat
    BY BytesFinite, Zenon
  <1> HIDE DEF own, rest
  <1>5. Cardinality(rest \cup own)
          = Cardinality(rest) + Cardinality(own) - Cardinality(rest \cap own)
    BY <1>3, <1>4, FS_Union, Zenon
  <1>6. Cardinality(rest \cap own) = 0
    BY <1>2, FS_EmptySet, Zenon
  <1>7. Cardinality(rest) + file[f].size = Cardinality(Bytes(fs))
    BY <1>1, <1>3, <1>4, <1>5, <1>6, SMTT(30)
  <1> QED
    BY <1>7, Zenon DEF rest

\* A file adds its size at most.
LEMMA BytesAdd ==
  ASSUME IInv, NEW fs \in SUBSET File, NEW f \in File
  PROVE  Cardinality(Bytes(fs \cup {f})) <= Cardinality(Bytes(fs)) + file[f].size
  <1>1. Cardinality(Bytes(fs)) \in Nat /\ file[f].size \in Nat
    BY BytesFinite, FileSizes, Zenon
  <1>2. CASE f \in fs
    <2>1. fs \cup {f} = fs
      BY <1>2, Zenon
    <2>2. Cardinality(Bytes(fs \cup {f})) = Cardinality(Bytes(fs))
      BY <2>1, Zenon
    <2> QED
      BY <1>1, <2>2, SMTT(30)
  <1>3. CASE f \notin fs
    <2>1. (fs \cup {f}) \ {f} = fs /\ fs \cup {f} \in SUBSET File /\ f \in fs \cup {f}
      BY <1>3, Zenon
    <2>2. Cardinality(Bytes((fs \cup {f}) \ {f})) + file[f].size
            = Cardinality(Bytes(fs \cup {f}))
      BY <2>1, BytesRemove, Zenon
    <2>3. Cardinality(Bytes(fs)) + file[f].size = Cardinality(Bytes(fs \cup {f}))
      BY <2>1, <2>2, Zenon
    <2>4. Cardinality(Bytes(fs \cup {f})) \in Nat
      BY <2>1, BytesFinite, Zenon
    <2> QED
      BY <1>1, <2>3, <2>4, SMTT(30)
  <1> QED
    BY <1>2, <1>3, Zenon

\* Rows that exist keep their owner and size.
FileStep ==
    \A f \in File : status[f] # "none" =>
        file'[f].owner = file[f].owner /\ file'[f].size = file[f].size

\* A row becomes pending only by the insert of a handler.
PendStep ==
    \A f \in File : status'[f] = "PENDING" =>
        \/ status[f] = "PENDING"
        \/ \E p \in Proc : pc[p] = "insert" /\ job[p].f = f

\* Loose users stay loose, and the space taken grows only by a charge.
UsedStep ==
    /\ loose \subseteq loose'
    /\ \A u \in User \ loose' :
          \/ used'[u] <= used[u]
          \/ \E p \in Proc : pc[p] = "charge" /\ FileOf(p).owner = u

\* A handler goes on with its file, or begins beside no request of the same user
\* or of a loose one; it has read the space taken; it charges for a row that is
\* not pending.
JobShift ==
    \A q \in Proc : pc'[q] # "idle" =>
        LET u == file'[job'[q].f].owner
        IN  /\ \/ pc[q] # "idle" /\ job'[q].f = job[q].f
               \/ \A r \in Proc \ {q} :
                     pc'[r] # "idle" /\ file'[job'[r].f].owner = u => u \in loose'
            /\ pc'[q] = "quota" =>
                  \/ pc[q] = "quota" /\ job'[q] = job[q]
                  \/ u \in loose' \/ used'[u] <= job'[q].used
            /\ pc'[q] = "charge" =>
                  \/ pc[q] = "charge" /\ job'[q].f = job[q].f
                  \/ u \in loose' \/ status'[job'[q].f] # "PENDING"

\* A handler of u that needs space did so before, or has a pending file.
OweStep(u) ==
    \A q \in Proc : pc'[q] \in Owing /\ file'[job'[q].f].owner = u =>
        \/ pc[q] \in Owing /\ job'[q].f = job[q].f
        \/ job'[q].f \in File /\ status[job'[q].f] = "PENDING"

\* A handler under way that keeps its file keeps its user.
LEMMA SameOwner ==
  ASSUME IInv, FileStep, NEW q \in Proc, pc[q] # "idle", job'[q].f = job[q].f
  PROVE  file'[job'[q].f].owner = FileOf(q).owner /\ FileOf(q).owner \in User
  BY Own, Zenon DEF FileStep

\* Such steps keep the requests of a user apart.
LEMMA AloneStep ==
  ASSUME IInv, Alone, FileStep, UsedStep, JobShift
  PROVE  Alone'
  <1> SUFFICES ASSUME NEW p \in Proc, NEW q \in Proc,
                      p # q, pc'[p] # "idle", pc'[q] # "idle",
                      file'[job'[p].f].owner = file'[job'[q].f].owner
               PROVE  file'[job'[p].f].owner \in loose'
    BY Zenon DEF Alone, FileOf
  <1>1. CASE pc[p] # "idle" /\ job'[p].f = job[p].f /\ pc[q] # "idle" /\ job'[q].f = job[q].f
    <2>1. file'[job'[p].f].owner = FileOf(p).owner /\ file'[job'[q].f].owner = FileOf(q).owner
      BY <1>1, SameOwner, Zenon
    <2>2. FileOf(p).owner \in loose
      BY <1>1, <2>1, Zenon DEF Alone
    <2> QED
      BY <2>1, <2>2, Zenon DEF UsedStep
  <1>2. CASE ~(pc[p] # "idle" /\ job'[p].f = job[p].f)
    BY <1>2, Zenon DEF JobShift
  <1>3. CASE ~(pc[q] # "idle" /\ job'[q].f = job[q].f)
    BY <1>3, Zenon DEF JobShift
  <1> QED
    BY <1>1, <1>2, <1>3, Zenon

\* Such steps leave what a request has read no less than the space taken.
LEMMA SeenStep ==
  ASSUME IInv, IInv', Alone, Seen, FileStep, UsedStep, JobShift
  PROVE  Seen'
  <1> SUFFICES ASSUME NEW p \in Proc, pc'[p] = "quota", file'[job'[p].f].owner \notin loose'
               PROVE  used'[file'[job'[p].f].owner] <= job'[p].used
    BY Zenon DEF Seen, FileOf
  <1> DEFINE u == FileOf(p).owner
  <1>1. CASE pc[p] = "quota" /\ job'[p] = job[p]
    <2>1. file'[job'[p].f].owner = u /\ u \in User
      BY <1>1, SameOwner, Zenon
    <2>2. u \notin loose' /\ u \notin loose
      BY <2>1, Zenon DEF UsedStep
    <2>3. used[u] <= job[p].used
      BY <1>1, <2>2, Zenon DEF Seen
    <2>4. used'[u] <= used[u]
      <3>1. ASSUME NEW q \in Proc, pc[q] = "charge", FileOf(q).owner = u
            PROVE  FALSE
        <4>1. q # p
          BY <1>1, <3>1, Zenon
        <4> QED
          BY <1>1, <2>2, <3>1, <4>1, Zenon DEF Alone
      <3> QED
        BY <2>1, <2>2, <3>1, Zenon DEF UsedStep
    <2>5. used[u] \in Nat /\ used'[u] \in Nat /\ job[p].used \in Nat
      BY <2>1, Zenon DEF IInv, TypeOK, JobTypes, Job
    <2>6. used'[u] <= job[p].used
      BY <2>3, <2>4, <2>5, SMTT(30)
    <2> QED
      BY <1>1, <2>1, <2>6, Zenon
  <1> QED
    BY <1>1, Zenon DEF JobShift

\* Such steps leave the row not pending that is charged for.
LEMMA SettledStep ==
  ASSUME IInv, Alone, Settled, FileStep, PendStep, UsedStep, JobShift
  PROVE  Settled'
  <1> SUFFICES ASSUME NEW p \in Proc, pc'[p] = "charge", file'[job'[p].f].owner \notin loose',
                      status'[job'[p].f] = "PENDING"
               PROVE  FALSE
    BY Zenon DEF Settled, FileOf
  <1>1. pc[p] = "charge" /\ job'[p].f = job[p].f
    BY Zenon DEF JobShift
  <1>2. file'[job'[p].f].owner = FileOf(p).owner /\ FileOf(p).owner \notin loose
    BY <1>1, SameOwner, Zenon DEF UsedStep
  <1>3. status[job[p].f] # "PENDING" /\ job[p].f \in File
    BY <1>1, <1>2, Own, Zenon DEF Settled
  <1>4. PICK q \in Proc : pc[q] = "insert" /\ job[q].f = job[p].f
    BY <1>1, <1>3, Zenon DEF PendStep
  <1>5. q # p /\ FileOf(q).owner = FileOf(p).owner
    BY <1>1, <1>4, Zenon DEF FileOf
  <1> QED
    BY <1>1, <1>2, <1>4, <1>5, Zenon DEF Alone

\* A file that is owed after such a step was owed before, and exists.
LEMMA OwedStep ==
  ASSUME IInv, FileStep, PendStep, NEW u, OweStep(u)
  PROVE  \A f \in Owed(u)' : f \in Owed(u) /\ file'[f].size = file[f].size
  <1> SUFFICES ASSUME NEW f \in File, file'[f].owner = u,
                      \/ status'[f] = "PENDING"
                      \/ \E p \in Proc : pc'[p] \in Owing /\ job'[p].f = f
               PROVE  f \in Owed(u) /\ file'[f].size = file[f].size
    BY Zenon DEF Owed
  <1>1. status[f] = "PENDING" \/ \E p \in Proc : pc[p] \in Owing /\ job[p].f = f
    <2>1. CASE status'[f] = "PENDING"
      BY <2>1, Zenon DEF PendStep, Owing
    <2>2. CASE \E p \in Proc : pc'[p] \in Owing /\ job'[p].f = f
      BY <2>2, Zenon DEF OweStep
    <2> QED
      BY <2>1, <2>2, Zenon
  <1>2. status[f] # "none"
    BY <1>1, Own, Zenon DEF Owing
  <1> QED
    BY <1>1, <1>2, Zenon DEF Owed, FileStep

\* A user who owes no more files owes no more space.
LEMMA OwedSpace ==
  ASSUME IInv, NEW u, NEW fs \in SUBSET File,
         \A f \in Owed(u)' : f \in fs /\ file'[f].size = file[f].size
  PROVE  /\ Cardinality(Bytes(Owed(u)))' <= Cardinality(Bytes(fs))
         /\ Cardinality(Bytes(Owed(u)))' \in Nat /\ Cardinality(Bytes(fs)) \in Nat
  <1>1. Bytes(Owed(u))' \subseteq Bytes(fs)
    BY Zenon DEF Bytes
  <1>2. IsFiniteSet(Bytes(fs)) /\ Cardinality(Bytes(fs)) \in Nat
    BY BytesFinite, Zenon
  <1>3. /\ IsFiniteSet(Bytes(Owed(u))')
        /\ Cardinality(Bytes(Owed(u))') <= Cardinality(Bytes(fs))
    BY <1>1, <1>2, FS_Subset, Zenon
  <1> QED
    BY <1>2, <1>3, FS_CardinalityType, Zenon

\* A user who takes no more space and owes no more files stays within the quota.
LEMMA WithinUser ==
  ASSUME IInv, IInv', Within, FileStep, PendStep, UsedStep,
         NEW u \in User \ loose', OweStep(u), used'[u] <= used[u]
  PROVE  used'[u] + Cardinality(Bytes(Owed(u)))' <= Quota
  <1>1. Owed(u) \in SUBSET File
    BY Zenon DEF Owed
  <1>2. \A f \in Owed(u)' : f \in Owed(u) /\ file'[f].size = file[f].size
    BY OwedStep, Zenon
  <1> DEFINE before == Cardinality(Bytes(Owed(u)))
  <1>3. before' <= before /\ before' \in Nat /\ before \in Nat
    BY <1>1, <1>2, OwedSpace, Zenon
  <1>4. used[u] + before <= Quota
    BY Zenon DEF Within, UsedStep
  <1>5. used[u] \in Nat /\ used'[u] \in Nat /\ Quota \in Nat
    BY MediaAssumption, Zenon DEF MediaAssumption, IInv, TypeOK
  <1> HIDE DEF before
  <1>6. used'[u] + before' <= Quota
    BY <1>3, <1>4, <1>5, SMTT(30)
  <1> QED
    BY <1>6, Zenon DEF before

\* Steps that let nobody take or owe more keep the quota.
LEMMA QuotaStep ==
  ASSUME IInv, IInv', QInv, FileStep, PendStep, UsedStep, JobShift,
         \A u \in User \ loose' : OweStep(u) /\ used'[u] <= used[u]
  PROVE  QInv'
  <1>1. Alone' /\ Seen' /\ Settled'
    BY AloneStep, SeenStep, SettledStep, Zenon DEF QInv
  <1>2. Within'
    <2>1. ASSUME NEW u \in User \ loose'
          PROVE  used'[u] + Cardinality(Bytes(Owed(u)))' <= Quota
      BY WithinUser, Zenon DEF QInv
    <2> QED
      BY <2>1, Zenon DEF Within
  <1> QED
    BY <1>1, <1>2, Zenon DEF QInv

\* Handler p ends, or goes on with its file and needs space only if it did so
\* before; the others stay where they are.
Moves(p) ==
    /\ \A q \in Proc \ {p} : pc'[q] = pc[q] /\ job'[q] = job[q]
    /\ \/ pc'[p] = "idle"
       \/ /\ pc[p] # "idle" /\ job'[p].f = job[p].f
          /\ pc'[p] \notin {"quota", "charge"}
          /\ pc'[p] \in Owing => pc[p] \in Owing

\* No row becomes pending when another status is set.
LEMMA PendSet ==
  ASSUME IInv, status' = status \/ \E f, s : s # "PENDING" /\ SetStatus(f, s)
  PROVE  PendStep
  <1>1. CASE status' = status
    BY <1>1, Zenon DEF PendStep
  <1>2. CASE \E f, s : s # "PENDING" /\ SetStatus(f, s)
    <2>1. PICK f, s : s # "PENDING" /\ SetStatus(f, s)
      BY <1>2, Zenon
    <2>2. ASSUME NEW g \in File
          PROVE  status'[g] = (IF g = f THEN s ELSE status[g])
      BY <2>1, Zenon DEF SetStatus, IInv, TypeOK, RowTypes
    <2> QED
      BY <2>1, <2>2, Zenon DEF PendStep
  <1> QED
    BY <1>1, <1>2, Zenon

\* The space taken stays as it is.
LEMMA UsedRest ==
  ASSUME IInv, used' = used, loose \subseteq loose'
  PROVE  UsedStep /\ \A u \in User \ loose' : used'[u] <= used[u]
  <1>1. ASSUME NEW u \in User
        PROVE  used'[u] <= used[u]
    <2>1. used[u] \in Nat
      BY Zenon DEF IInv, TypeOK
    <2> QED
      BY <2>1, SMTT(30)
  <1> QED
    BY <1>1, Zenon DEF UsedStep

\* A step of a handler that charges nobody and passes no test keeps the quota.
LEMMA QuotaMoves ==
  ASSUME IInv, IInv', QInv, NEW p \in Proc, Moves(p), FileStep, PendStep, UNCHANGED <<used, loose>>
  PROVE  QInv'
  <1>1. UsedStep /\ \A u \in User \ loose' : used'[u] <= used[u]
    BY UsedRest, Zenon
  <1>2. JobShift
    BY Zenon DEF JobShift, Moves
  <1>3. \A u : OweStep(u)
    BY Zenon DEF OweStep, Moves, Owing
  <1> QED
    BY <1>1, <1>2, <1>3, QuotaStep, Zenon

\* A step that leaves handlers and files alone keeps the quota.
LEMMA QuotaElse ==
  ASSUME IInv, IInv', QInv, UNCHANGED <<file, jobVars, loose>>, PendStep,
         \A u \in User \ loose' : used'[u] <= used[u]
  PROVE  QInv'
  <1>1. UsedStep
    BY Zenon DEF UsedStep
  <1>2. FileStep
    BY Zenon DEF FileStep
  <1>3. JobShift
    BY Zenon DEF JobShift, jobVars
  <1>4. \A u : OweStep(u)
    BY Zenon DEF OweStep, jobVars
  <1> QED
    BY <1>1, <1>2, <1>3, <1>4, QuotaStep, Zenon

\* What Goto and Finish do to each handler.
LEMMA MovesGoto ==
  ASSUME IInv, NEW p \in Proc, pc[p] # "idle", NEW l, Goto(p, l),
         l \notin {"quota", "charge"}, l \in Owing => pc[p] \in Owing
  PROVE  Moves(p)
  <1>1. ASSUME NEW q \in Proc
        PROVE  pc'[q] = (IF q = p THEN l ELSE pc[q]) /\ job'[q] = job[q]
    BY Zenon DEF Goto, IInv, TypeOK, JobTypes
  <1> QED
    BY <1>1, Zenon DEF Moves

\* A handler that ends.
LEMMA MovesFinish ==
  ASSUME IInv, NEW p \in Proc, Finish(p)
  PROVE  Moves(p)
  <1>1. ASSUME NEW q \in Proc
        PROVE  /\ pc'[q] = (IF q = p THEN "idle" ELSE pc[q])
               /\ q # p => job'[q] = job[q]
    BY Zenon DEF Finish, IInv, TypeOK, JobTypes
  <1> QED
    BY <1>1, Zenon DEF Moves

\* The handlers that neither test the quota nor charge a user keep it.
LEMMA QuotaHandlers ==
  ASSUME IInv, IInv', QInv, NEW p \in Proc,
         \/ Insert(p) \/ Join(p) \/ Head(p) \/ Purge(p) \/ Drop(p) \/ SelectBlob(p)
         \/ Rekey(p) \/ Move(p) \/ Upsert(p) \/ IncRef(p) \/ Crash(p)
  PROVE  QInv'
  <1>1. UNCHANGED <<file, used, loose>>
    BY Zenon DEF Insert, Join, Head, Purge, Drop, SelectBlob, Rekey, Move, Upsert, IncRef,
           Crash, rowVars
  <1>2. FileStep
    BY <1>1, Zenon DEF FileStep
  <1>3. PendStep
    <2>1. CASE Insert(p)
      <3>1. SetStatus(job[p].f, "PENDING") \/ SetStatus(job[p].f, "refused")
        BY <2>1, Zenon DEF Insert
      <3>2. CASE SetStatus(job[p].f, "PENDING")
        <4>1. ASSUME NEW g \in File, g # job[p].f
              PROVE  status'[g] = status[g]
          BY <3>2, <4>1, Zenon DEF SetStatus, IInv, TypeOK, RowTypes
        <4>2. pc[p] = "insert"
          BY <2>1, Zenon DEF Insert
        <4> QED
          BY <4>1, <4>2, Zenon DEF PendStep
      <3> QED
        BY <3>1, <3>2, PendSet, Zenon
    <2>2. CASE Drop(p) \/ Crash(p)
      <3>1. \/ status' = status
            \/ SetStatus(job[p].f, "DELETED") \/ SetStatus(job[p].f, "refused")
        BY <2>2, Zenon DEF Drop, Crash, TryStatus
      <3> QED
        BY <3>1, PendSet, Zenon
    <2>3. CASE \/ Join(p) \/ Head(p) \/ Purge(p) \/ SelectBlob(p) \/ Rekey(p) \/ Move(p)
               \/ Upsert(p) \/ IncRef(p)
      <3>1. status' = status
        BY <2>3, Zenon DEF Join, Head, Purge, SelectBlob, Rekey, Move, Upsert, IncRef, rowVars
      <3> QED
        BY <3>1, PendSet, Zenon
    <2> QED
      BY <2>1, <2>2, <2>3, Zenon
  <1>4. Moves(p)
    <2>1. CASE Finish(p)
      BY <2>1, MovesFinish, Zenon
    <2>2. CASE \/ Join(p) \/ Head(p) \/ Purge(p) \/ Rekey(p) \/ Move(p) \/ Upsert(p) \/ IncRef(p)
      <3>1. \/ Finish(p)
            \/ \E l \in {"drop", "purge"} : pc[p] # "idle" /\ Goto(p, l)
            \/ \E l \in {"check", "blob", "move", "ref", "commit"} : pc[p] \in Owing /\ Goto(p, l)
        BY <2>2, Zenon DEF Join, Head, Purge, Rekey, Move, Upsert, IncRef, Owing
      <3>2. CASE \E l \in {"drop", "purge"} : pc[p] # "idle" /\ Goto(p, l)
        BY <3>2, MovesGoto, Zenon DEF Owing
      <3>3. CASE \E l \in {"check", "blob", "move", "ref", "commit"} :
                    pc[p] \in Owing /\ Goto(p, l)
        BY <3>3, MovesGoto, Zenon DEF Owing
      <3> QED
        BY <2>1, <3>1, <3>2, <3>3, Zenon
    <2>3. CASE SelectBlob(p)
      <3>1. pc[p] = "blob"
        BY <2>3, Zenon DEF SelectBlob
      <3>2. CASE \E l \in {"upsert", "ref"} : Goto(p, l)
        BY <3>1, <3>2, MovesGoto, Zenon DEF Owing
      <3>3. CASE /\ pc' = [pc EXCEPT ![p] = "rekey"]
                 /\ \E k : job' = [job EXCEPT ![p].to = k]
        <4>1. ASSUME NEW q \in Proc
              PROVE  /\ pc'[q] = (IF q = p THEN "rekey" ELSE pc[q])
                     /\ q # p => job'[q] = job[q]
          BY <3>3, Zenon DEF IInv, TypeOK, JobTypes
        <4>2. job'[p].f = job[p].f
          <5>1. job[p] \in Job /\ job \in [Proc -> Job]
            BY Zenon DEF IInv, TypeOK, JobTypes
          <5> QED
            BY <3>3, <5>1, SMTT(30) DEF Job
        <4> QED
          BY <3>1, <4>1, <4>2, Zenon DEF Moves, Owing
      <3> QED
        BY <2>3, <3>2, <3>3, Zenon DEF SelectBlob
    <2> QED
      BY <2>1, <2>2, <2>3, Zenon DEF Insert, Drop, Crash
  <1> QED
    BY <1>1, <1>2, <1>3, <1>4, QuotaMoves, Zenon

\* Dedup changes neither the owner nor the size of its file.
LEMMA QuotaDedup ==
  ASSUME IInv, IInv', QInv, NEW p \in Proc, Dedup(p)
  PROVE  QInv'
  <1> DEFINE f == job[p].f
  <1>1. pc[p] = "dedup" /\ UNCHANGED <<used, loose>> /\ (Goto(p, "insert") \/ Finish(p))
    BY Zenon DEF Dedup
  <1>2. status' = status \/ SetStatus(f, "refused")
    BY Zenon DEF Dedup
  <1>3. PendStep
    BY <1>2, PendSet, Zenon
  <1>4. Moves(p)
    BY <1>1, MovesGoto, MovesFinish, Zenon DEF Owing
  <1>5. FileStep
    <2>1. file[f] \in Upload
      BY <1>1, Own, Zenon
    <2>2. /\ [file[f] EXCEPT !.multi = FALSE].owner = file[f].owner
          /\ [file[f] EXCEPT !.multi = FALSE].size = file[f].size
      BY <2>1, Zenon DEF Upload
    <2>3. file' = file \/ file' = [file EXCEPT ![f].multi = FALSE]
      BY Zenon DEF Dedup
    <2>4. ASSUME NEW g \in File
          PROVE  file'[g] = file[g] \/ (g = f /\ file'[g] = [file[f] EXCEPT !.multi = FALSE])
      BY <2>3, Zenon DEF IInv, TypeOK, RowTypes
    <2> QED
      BY <2>2, <2>4, Zenon DEF FileStep
  <1> QED
    BY <1>1, <1>3, <1>4, <1>5, QuotaMoves, Zenon

\* A request that begins makes its user loose if it overlaps another one.
LEMMA ServeAlone ==
  ASSUME IInv, FileStep, NEW p \in Proc, NEW u, Serve(p, u), NEW l, NEW j,
         pc' = [pc EXCEPT ![p] = l], job' = [job EXCEPT ![p] = j]
  PROVE  \A r \in Proc \ {p} : pc'[r] # "idle" /\ file'[job'[r].f].owner = u => u \in loose'
  <1>1. ASSUME NEW r \in Proc \ {p}
        PROVE  pc'[r] = pc[r] /\ job'[r] = job[r]
    BY Zenon DEF IInv, TypeOK, JobTypes
  <1>2. ASSUME NEW r \in Proc \ {p}, pc'[r] # "idle", file'[job'[r].f].owner = u
        PROVE  u \in loose'
    <2>1. pc[r] # "idle" /\ job'[r].f = job[r].f
      BY <1>1, <1>2, Zenon
    <2>2. FileOf(r).owner = u
      BY <1>2, <2>1, SameOwner, Zenon
    <2> QED
      BY <2>1, <2>2, Zenon DEF Serve
  <1> QED
    BY <1>2, Zenon

\* CompleteUpload and abort begin with a file whose space is owed already, or
\* need no space.
LEMMA QuotaStart ==
  ASSUME IInv, IInv', QInv, NEW p \in Proc, NEW f \in File,
         AbortStart(p, f) \/ \E l \in {"head", "join"} : CompleteStart(p, f, l)
  PROVE  QInv'
  <1>1. PICK l, k :
          /\ l = "drop" \/ (l \in {"head", "join"} /\ status[f] = "PENDING")
          /\ pc' = [pc EXCEPT ![p] = l] /\ job' = [job EXCEPT ![p] = NewJob(f, k, 0)]
          /\ Serve(p, file[f].owner) /\ UNCHANGED <<status, file, used>>
    BY Zenon DEF AbortStart, CompleteStart, rowVars
  <1>2. FileStep /\ PendStep
    BY <1>1, PendSet, Zenon DEF FileStep
  <1>3. loose \subseteq loose'
    BY <1>1, Zenon DEF Serve
  <1>4. UsedStep /\ \A u \in User \ loose' : used'[u] <= used[u]
    BY <1>1, <1>3, UsedRest, Zenon
  <1>5. NewJob(f, k, 0).f = f
    BY Zenon DEF NewJob
  <1>6. ASSUME NEW q \in Proc
        PROVE  /\ q # p => pc'[q] = pc[q] /\ job'[q] = job[q]
               /\ q = p => pc'[q] = l /\ job'[q].f = f
    BY <1>1, <1>5, Zenon DEF IInv, TypeOK, JobTypes
  <1>7. \A r \in Proc \ {p} : pc'[r] # "idle" /\ file'[job'[r].f].owner = file[f].owner
                                => file[f].owner \in loose'
    BY <1>1, <1>2, ServeAlone, Zenon
  <1>8. JobShift
    <2>1. /\ pc'[p] \notin {"quota", "charge"}
          /\ file'[job'[p].f].owner = file[f].owner
      BY <1>1, <1>6, Zenon
    <2>2. ASSUME NEW q \in Proc, q # p
          PROVE  pc'[q] = pc[q] /\ job'[q] = job[q]
      BY <1>6, <2>2, Zenon
    <2> QED
      BY <1>7, <2>1, <2>2, Zenon DEF JobShift
  <1>9. \A u : OweStep(u)
    BY <1>1, <1>6, Zenon DEF OweStep, Owing
  <1> QED
    BY <1>2, <1>4, <1>8, <1>9, QuotaStep, Zenon

\* ApplyUpload begins with a new file and the space taken at that moment.
LEMMA QuotaApply ==
  ASSUME IInv, IInv', QInv, NEW p \in Proc, NEW f \in File, NEW u \in User, NEW h \in Hash,
         NEW pu \in Purpose, NEW n \in Size, NEW m \in Multi,
         ApplyEnsure(p, f, u, h, pu, n, m)
  PROVE  QInv'
  <1> DEFINE new == [owner |-> u, hash |-> h, size |-> n, multi |-> m]
  <1>1. PICK j :
          /\ j = NewJob(f, None, used[u]) \/ j = NewJob(f, None, 0)
          /\ status[f] = "none" /\ SetStatus(f, "draft")
          /\ file' = [file EXCEPT ![f] = new]
          /\ pc' = [pc EXCEPT ![p] = "quota"] /\ job' = [job EXCEPT ![p] = j]
          /\ used' = used
          /\ \/ j = NewJob(f, None, used[u]) /\ Serve(p, u)
             \/ loose' = loose \cup {u}
    BY Zenon DEF ApplyEnsure
  <1>2. /\ \A g \in File : g # f => file'[g] = file[g]
        /\ file'[f] = new /\ new.owner = u
    BY <1>1, Zenon DEF IInv, TypeOK, RowTypes
  <1>3. FileStep
    BY <1>1, <1>2, Zenon DEF FileStep
  <1>4. PendStep
    BY <1>1, PendSet, Zenon
  <1>5. loose \subseteq loose'
    BY <1>1, Zenon DEF Serve
  <1>6. UsedStep /\ \A v \in User \ loose' : used'[v] <= used[v]
    BY <1>1, <1>5, UsedRest, Zenon
  <1>7. j.f = f /\ (j = NewJob(f, None, used[u]) => j.used = used[u])
    <2>1. \A x : NewJob(f, None, x).f = f /\ NewJob(f, None, x).used = x
      BY Zenon DEF NewJob
    <2> QED
      BY <1>1, <2>1, Zenon
  <1>8. ASSUME NEW q \in Proc
        PROVE  /\ q # p => pc'[q] = pc[q] /\ job'[q] = job[q]
               /\ q = p => pc'[q] = "quota" /\ job'[q] = j
    BY <1>1, Zenon DEF IInv, TypeOK, JobTypes
  <1>9. \A r \in Proc \ {p} : pc'[r] # "idle" /\ file'[job'[r].f].owner = u => u \in loose'
    BY <1>1, <1>3, ServeAlone, Zenon
  <1>10. file'[job'[p].f].owner = u
    BY <1>2, <1>7, <1>8, Zenon
  <1>11. u \in loose' \/ used'[u] <= job'[p].used
    <2>1. job'[p] = j
      BY <1>8, Zenon
    <2>2. CASE j = NewJob(f, None, used[u])
      BY <1>6, <1>7, <2>1, <2>2, Zenon
    <2>3. CASE loose' = loose \cup {u}
      BY <2>3, Zenon
    <2> QED
      BY <1>1, <2>2, <2>3, Zenon
  <1>12. JobShift
    BY <1>8, <1>9, <1>10, <1>11, Zenon DEF JobShift
  <1>13. \A v : OweStep(v)
    BY <1>8, Zenon DEF OweStep, Owing
  <1> QED
    BY <1>3, <1>4, <1>6, <1>12, <1>13, QuotaStep, Zenon

\* While a request of a user who is not loose runs, no other handler needs space
\* for that user.
LEMMA OnlyOne ==
  ASSUME IInv, QInv, NEW p \in Proc, pc[p] # "idle", FileOf(p).owner \notin loose,
         NEW q \in Proc \ {p}, pc[q] # "idle"
  PROVE  FileOf(q).owner # FileOf(p).owner /\ job[q].f # job[p].f
  BY Zenon DEF QInv, Alone, FileOf

\* CheckQuota lets a handler need the space of its file only if it is there.
LEMMA QuotaCheck ==
  ASSUME IInv, IInv', QInv, NEW p \in Proc, CheckQuota(p)
  PROVE  QInv'
  <1>0. PICK f, u : f = job[p].f /\ u = FileOf(p).owner
    BY Zenon
  <1>1. pc[p] = "quota" /\ UNCHANGED <<file, used>>
    BY Zenon DEF CheckQuota
  <1>2. /\ f \in File /\ status[f] # "none" /\ u \in User /\ file[f] = FileOf(p)
        /\ file[f].owner = u
    BY <1>0, <1>1, Own, Zenon
  <1>3. FileStep
    BY <1>1, Zenon DEF FileStep
  <1>4. CASE Finish(p) /\ SetStatus(f, "refused") /\ UNCHANGED loose
    <2>1. PendStep /\ Moves(p)
      BY <1>4, PendSet, MovesFinish, Zenon
    <2> QED
      BY <1>1, <1>3, <1>4, <2>1, QuotaMoves, Zenon
  <1>5. CASE /\ Goto(p, "dedup") /\ UNCHANGED status
             /\ \/ UNCHANGED loose /\ QuotaTest(f, job[p].used)
                \/ loose' = loose \cup {u}
    <2>1. PendStep
      BY <1>5, PendSet, Zenon
    <2>2. UsedStep /\ \A v \in User \ loose' : used'[v] <= used[v]
      BY <1>1, <1>5, UsedRest, Zenon
    <2>3. ASSUME NEW q \in Proc
          PROVE  pc'[q] = (IF q = p THEN "dedup" ELSE pc[q]) /\ job'[q] = job[q]
      BY <1>5, Zenon DEF Goto, IInv, TypeOK, JobTypes
    <2>4. JobShift
      BY <1>1, <2>3, Zenon DEF JobShift
    <2>5. Alone' /\ Seen' /\ Settled'
      BY <1>3, <2>1, <2>2, <2>4, AloneStep, SeenStep, SettledStep, Zenon DEF QInv
    <2>6. ASSUME NEW v \in User \ loose'
          PROVE  used'[v] + Cardinality(Bytes(Owed(v)))' <= Quota
      <3>1. CASE v # u
        <4>1. OweStep(v)
          BY <1>0, <1>1, <1>2, <2>3, <3>1, Zenon DEF OweStep
        <4> QED
          BY <1>3, <2>1, <2>2, <2>6, <4>1, WithinUser, Zenon DEF QInv
      <3>2. CASE v = u
        <4> DEFINE pending == {g \in File : status[g] = "PENDING" /\ file[g].owner = u}
        <4>1. u \notin loose /\ QuotaTest(f, job[p].used)
          BY <1>5, <2>6, <3>2, Zenon
        <4>2. ASSUME NEW g \in Owed(u)'
              PROVE  g \in pending \cup {f} /\ file'[g].size = file[g].size
          <5>1. g \in File /\ file[g].owner = u
            BY <1>1, <4>2, Zenon DEF Owed
          <5>2. status[g] = "PENDING" \/ \E q \in Proc : pc'[q] \in Owing /\ job[q].f = g
            BY <1>5, <2>3, <4>2, Zenon DEF Owed
          <5>3. ASSUME NEW q \in Proc, pc'[q] \in Owing, job[q].f = g, q # p
                PROVE  FALSE
            <6>1. pc[q] # "idle" /\ FileOf(q).owner = u
              BY <2>3, <5>1, <5>3, Zenon DEF Owing, FileOf
            <6> QED
              BY <1>0, <1>1, <4>1, <5>3, <6>1, OnlyOne, Zenon
          <5> QED
            BY <1>0, <1>1, <5>1, <5>2, <5>3, Zenon
        <4>3. pending \in SUBSET File /\ pending \cup {f} \in SUBSET File
          BY <1>2, Zenon
        <4>4. /\ Cardinality(Bytes(Owed(u)))' <= Cardinality(Bytes(pending \cup {f}))
              /\ Cardinality(Bytes(Owed(u)))' \in Nat
              /\ Cardinality(Bytes(pending \cup {f})) \in Nat
          <5> HIDE DEF pending
          <5> QED
            BY <4>2, <4>3, OwedSpace, Zenon
        <4>5. /\ Cardinality(Bytes(pending \cup {f})) <= Cardinality(Bytes(pending)) + file[f].size
              /\ Cardinality(Bytes(pending)) \in Nat /\ file[f].size \in Nat
          <5> HIDE DEF pending
          <5> QED
            BY <1>2, <4>3, BytesAdd, BytesFinite, FileSizes, Zenon
        <4>6. job[p].used + file[f].size + Cardinality(Bytes(pending)) <= Quota
          BY <1>2, <4>1, Zenon DEF QuotaTest, PendingBytes
        <4>7. used[u] <= job[p].used
          BY <1>0, <1>1, <4>1, Zenon DEF QInv, Seen
        <4>8. used[u] \in Nat /\ job[p].used \in Nat /\ Quota \in Nat /\ used'[u] = used[u]
          BY <1>1, <1>2, MediaAssumption, Zenon DEF MediaAssumption, IInv, TypeOK, JobTypes, Job
        <4> HIDE DEF pending
        <4> DEFINE a == Cardinality(Bytes(Owed(u)))'
                   b == Cardinality(Bytes(pending \cup {f}))
                   c == Cardinality(Bytes(pending))
        <4>9. used'[u] + a <= Quota
          <5>1. a <= b /\ a \in Nat /\ b \in Nat /\ b <= c + file[f].size /\ c \in Nat
                /\ file[f].size \in Nat /\ job[p].used + file[f].size + c <= Quota
            BY <4>4, <4>5, <4>6, Zenon
          <5> HIDE DEF a, b, c
          <5> QED
            BY <4>7, <4>8, <5>1, SMTT(30)
        <4> QED
          BY <3>2, <4>9, Zenon
      <3> QED
        BY <3>1, <3>2, Zenon
    <2> QED
      BY <2>5, <2>6, Zenon DEF QInv, Within
  <1> QED
    BY <1>0, <1>2, <1>4, <1>5, Zenon DEF CheckQuota

\* Commit: the row is not pending any more when its space is charged.
LEMMA QuotaCommit ==
  ASSUME IInv, IInv', QInv, NEW p \in Proc, Commit(p)
  PROVE  QInv'
  <1>0. PICK f, u : f = job[p].f /\ u = FileOf(p).owner
    BY Zenon
  <1>1. /\ pc[p] = "commit" /\ Goto(p, "charge") /\ UNCHANGED <<file, used>>
        /\ \/ SetStatus(f, "COMMITTED") /\ UNCHANGED loose
           \/ UNCHANGED status /\ loose' = loose \cup {u}
    BY <1>0, Zenon DEF Commit
  <1>2. f \in File /\ file[f].owner = u
    BY <1>0, <1>1, Own, Zenon
  <1>3. FileStep
    BY <1>1, Zenon DEF FileStep
  <1>4. PendStep
    BY <1>1, PendSet, Zenon
  <1>5. UsedStep /\ \A v \in User \ loose' : used'[v] <= used[v]
    BY <1>1, UsedRest, Zenon
  <1>6. ASSUME NEW q \in Proc
        PROVE  pc'[q] = (IF q = p THEN "charge" ELSE pc[q]) /\ job'[q] = job[q]
    BY <1>1, Zenon DEF Goto, IInv, TypeOK, JobTypes
  <1>7. u \in loose' \/ status'[f] # "PENDING"
    BY <1>1, <1>2, Zenon DEF SetStatus, IInv, TypeOK, RowTypes
  <1>8. JobShift
    BY <1>0, <1>1, <1>2, <1>6, <1>7, Zenon DEF JobShift
  <1>9. \A v : OweStep(v)
    BY <1>1, <1>6, Zenon DEF OweStep, Owing
  <1> QED
    BY <1>3, <1>4, <1>5, <1>8, <1>9, QuotaStep, Zenon

\* Charge: the space that was owed is taken, and owed no longer.
LEMMA QuotaCharge ==
  ASSUME IInv, IInv', QInv, NEW p \in Proc, Charge(p)
  PROVE  QInv'
  <1>0. PICK f, u : f = job[p].f /\ u = FileOf(p).owner
    BY Zenon
  <1>1. /\ pc[p] = "charge" /\ Finish(p) /\ UNCHANGED <<status, file, loose>>
        /\ UNCHANGED used \/ used' = [used EXCEPT ![u] = @ + file[f].size]
    BY <1>0, Zenon DEF Charge, rowVars, FileOf
  <1>2. f \in File /\ file[f].owner = u /\ u \in User
    BY <1>0, <1>1, Own, Zenon
  <1>3. FileStep /\ PendStep /\ Moves(p)
    BY <1>1, PendSet, MovesFinish, Zenon DEF FileStep
  <1>4. CASE UNCHANGED used
    BY <1>1, <1>3, <1>4, QuotaMoves, Zenon
  <1>5. CASE used' = [used EXCEPT ![u] = @ + file[f].size]
    <2>1. used'[u] = used[u] + file[f].size /\ \A v \in User \ {u} : used'[v] = used[v]
      BY <1>2, <1>5, Zenon DEF IInv, TypeOK
    <2>2. \A v \in User \ {u} : used'[v] <= used[v]
      <3>1. ASSUME NEW v \in User \ {u}
            PROVE  used'[v] <= used[v]
        <4>1. used'[v] = used[v] /\ used[v] \in Nat
          BY <2>1, Zenon DEF IInv, TypeOK
        <4> QED
          BY <4>1, SMTT(30)
      <3> QED
        BY <3>1, Zenon
    <2>3. UsedStep
      BY <1>0, <1>1, <2>2, Zenon DEF UsedStep
    <2>4. JobShift /\ \A v : OweStep(v)
      BY <1>3, Zenon DEF JobShift, OweStep, Moves, Owing
    <2>5. Alone' /\ Seen' /\ Settled'
      BY <1>3, <2>3, <2>4, AloneStep, SeenStep, SettledStep, Zenon DEF QInv
    <2>6. ASSUME NEW v \in User \ loose'
          PROVE  used'[v] + Cardinality(Bytes(Owed(v)))' <= Quota
      <3>1. CASE v # u
        BY <1>3, <2>2, <2>3, <2>4, <2>6, <3>1, WithinUser, Zenon DEF QInv
      <3>2. CASE v = u
        <4>1. u \notin loose
          BY <1>1, <2>6, <3>2, Zenon
        <4>2. status[f] # "PENDING"
          BY <1>0, <1>1, <4>1, Zenon DEF QInv, Settled
        <4>3. f \in Owed(u) /\ Owed(u) \in SUBSET File
          BY <1>0, <1>1, <1>2, Zenon DEF Owed, Owing
        <4>4. ASSUME NEW q \in Proc, pc'[q] # "idle"
              PROVE  job'[q].f # f
          <5>1. ASSUME NEW q2 \in Proc
                PROVE  /\ pc'[q2] = (IF q2 = p THEN "idle" ELSE pc[q2])
                       /\ q2 # p => job'[q2] = job[q2]
            BY <1>1, Zenon DEF Finish, IInv, TypeOK, JobTypes
          <5>2. q # p /\ pc[q] # "idle" /\ job'[q] = job[q]
            BY <4>4, <5>1, Zenon
          <5> QED
            BY <1>0, <1>1, <4>1, <5>2, OnlyOne, Zenon
        <4>5. \A g \in Owed(u)' : g # f
          BY <1>1, <4>2, <4>4, Zenon DEF Owed, Owing
        <4>6. \A g \in Owed(u)' : g \in Owed(u) \ {f} /\ file'[g].size = file[g].size
          BY <1>3, <2>4, <4>5, OwedStep, Zenon
        <4>7. Owed(u) \ {f} \in SUBSET File
          BY <4>3, Zenon
        <4> DEFINE a == Cardinality(Bytes(Owed(u)))'
                   b == Cardinality(Bytes(Owed(u) \ {f}))
                   c == Cardinality(Bytes(Owed(u)))
        <4>8. a <= b /\ a \in Nat /\ b \in Nat
          BY <4>6, <4>7, OwedSpace, Zenon
        <4>9. b + file[f].size = c /\ file[f].size \in Nat /\ c \in Nat
          BY <1>2, <4>3, BytesRemove, BytesFinite, FileSizes, Zenon
        <4>10. used[u] + c <= Quota
          BY <1>2, <4>1, Zenon DEF QInv, Within
        <4>11. used[u] \in Nat /\ Quota \in Nat
          BY <1>2, MediaAssumption, Zenon DEF MediaAssumption, IInv, TypeOK
        <4>12. used'[u] + a <= Quota
          <5> HIDE DEF a, b, c
          <5> QED
            BY <2>1, <4>8, <4>9, <4>10, <4>11, SMTT(30)
        <4> QED
          BY <3>2, <4>12, Zenon
      <3> QED
        BY <3>1, <3>2, Zenon
    <2> QED
      BY <2>5, <2>6, Zenon DEF QInv, Within
  <1> QED
    BY <1>1, <1>4, <1>5, Zenon

\* A refund leaves no more space taken than there was.
LEMMA RefundLess ==
  ASSUME IInv, WorkerRefund
  PROVE  \A u \in User : used'[u] <= used[u]
  <1>1. cur[1] \in Hash
    BY Zenon DEF WorkerRefund, IInv, Working, Good, TypeOK, GhostTypes
  <1>2. total[cur[1]] \in Nat
    <2>1. total[cur[1]] \in Size \cup {0}
      BY <1>1, Zenon DEF IInv, TypeOK, BlobTypes
    <2> QED
      BY <2>1, SizesNat, Zenon
  <1>3. ASSUME NEW u \in User, NEW n \in Nat
        PROVE  Refund(u, total[cur[1]] * n) <= used[u]
    <2>1. total[cur[1]] * n \in Nat /\ used[u] \in Nat
      BY <1>2, SMTT(30) DEF IInv, TypeOK
    <2> QED
      BY <2>1, SMTT(30) DEF Refund
  <1>4. ASSUME NEW u \in User
        PROVE  Cardinality(Dead(u, cur[1])) \in Nat
    BY FilesFinite, FS_Subset, FS_CardinalityType, Zenon DEF Dead
  <1>5. 0..MaxFiles \subseteq Nat
    OBVIOUS
  <1>6. CASE used' = [u \in User |-> Refund(u, total[cur[1]] * Cardinality(Dead(u, cur[1])))]
    BY <1>3, <1>4, <1>6, Zenon
  <1>7. CASE \E dead \in [User -> 0..MaxFiles] :
                used' = [u \in User |-> Refund(u, total[cur[1]] * dead[u])]
    BY <1>3, <1>5, <1>7, Zenon
  <1> QED
    BY <1>6, <1>7, Zenon DEF WorkerRefund

\* Clients, time and the clean-up worker keep the quota.
LEMMA QuotaClean ==
  ASSUME IInv, IInv', QInv,
         \/ Clean \/ WorkerCrash \/ UNCHANGED vars
         \/ \E f \in File : Age(f) \/ \E n \in Length : ClientPut(f, n)
         \/ \E h \in Hash : AgeBlob(h)
  PROVE  QInv'
  <1>1. UNCHANGED <<file, jobVars, loose>>
    BY Zenon DEF Clean, ListPending, ListQuarantined, ListUploads, ListUnref, ListCommitted,
           ListRows, WorkerBlob, WorkerDelete, WorkerAbort, WorkerMark, WorkerOrphan, WorkerRow,
           WorkerUnref, WorkerRefund, WorkerErase, WorkerSniff, WorkerTaint, WorkerCrash, Age,
           ClientPut, AgeBlob, rowVars, vars
  <1>2. \/ status' = status
        \/ SetStatus(cur[1], "DELETED") \/ SetStatus(cur[1], "QUARANTINED")
    BY Zenon DEF Clean, ListPending, ListQuarantined, ListUploads, ListUnref, ListCommitted,
           ListRows, WorkerBlob, WorkerDelete, WorkerAbort, WorkerMark, WorkerOrphan, WorkerRow,
           WorkerUnref, WorkerRefund, WorkerErase, WorkerSniff, WorkerTaint, WorkerCrash, Age,
           ClientPut, AgeBlob, rowVars, vars, TryStatus
  <1>3. PendStep
    BY <1>2, PendSet, Zenon
  <1>4. used' = used \/ WorkerRefund
    BY Zenon DEF Clean, ListPending, ListQuarantined, ListUploads, ListUnref, ListCommitted,
           ListRows, WorkerBlob, WorkerDelete, WorkerAbort, WorkerMark, WorkerOrphan, WorkerRow,
           WorkerUnref, WorkerErase, WorkerSniff, WorkerTaint, WorkerCrash, Age,
           ClientPut, AgeBlob, vars
  <1>5. \A u \in User \ loose' : used'[u] <= used[u]
    BY <1>1, <1>4, UsedRest, RefundLess, Zenon
  <1> QED
    BY <1>1, <1>3, <1>5, QuotaElse, Zenon

\* At first nobody takes or owes any space.
LEMMA QuotaInit ==
  ASSUME Init
  PROVE  QInv
  <1>1. Alone /\ Seen /\ Settled
    BY Zenon DEF Init, Alone, Seen, Settled
  <1>2. ASSUME NEW u \in User
        PROVE  used[u] + Cardinality(Bytes(Owed(u))) <= Quota
    <2>1. Owed(u) = {}
      BY Zenon DEF Init, Owed, Owing
    <2>2. Bytes(Owed(u)) = {}
      BY <2>1, Zenon DEF Bytes
    <2>3. Cardinality(Bytes(Owed(u))) = 0 /\ used[u] = 0
      BY <2>2, FS_EmptySet, Zenon DEF Init
    <2> QED
      BY <2>3, MediaAssumption, SMTT(30) DEF MediaAssumption
  <1> QED
    BY <1>1, <1>2, Zenon DEF QInv, Within

\* Every step keeps the space taken and owed within the quota.
LEMMA QuotaNext ==
  ASSUME IInv, QInv, [Next]_vars
  PROVE  QInv'
  <1>1. IInv'
    BY NextKeeps, Zenon
  <1>2. ASSUME NEW p \in Proc, Request(p)
        PROVE  QInv'
    BY <1>1, <1>2, QuotaApply, QuotaStart, Zenon DEF Request
  <1>3. ASSUME NEW p \in Proc, Handle(p) \/ Crash(p)
        PROVE  QInv'
    BY <1>1, <1>3, QuotaCheck, QuotaDedup, QuotaHandlers, QuotaCommit, QuotaCharge, Zenon
    DEF Handle
  <1> QED
    BY <1>1, <1>2, <1>3, QuotaClean, Zenon DEF Next

\* For any number of users, files, handlers and faults, the space that a user has
\* taken, has pending or needs for a request under way is within the quota,
\* unless requests of the user overlapped or the database failed them
\* (upload_handler.hpp, steps 3 to 6 of apply, and complete).
THEOREM QuotaInvariance == Spec => [](IInv /\ QInv)
  <1>1. Init => IInv /\ QInv
    BY InitKeeps, QuotaInit, Zenon
  <1>2. IInv /\ QInv /\ [Next]_vars => IInv' /\ QInv'
    BY NextKeeps, QuotaNext, Zenon
  <1> QED
    BY <1>1, <1>2, PTL DEF Spec

\* The used and the pending bytes of a user who is not loose never exceed the
\* quota together, whatever the clean-up does between the test of the quota, the
\* insert, the commit and the charge (upload_handler.hpp, step 3 of apply).
THEOREM QuotaSafe == Spec => []QuotaKept
  <1>1. ASSUME IInv, QInv
        PROVE  QuotaKept
    <2> SUFFICES ASSUME NEW u \in User \ loose
                 PROVE  used[u] + PendingBytes(u) <= Quota
      BY Zenon DEF QuotaKept
    <2> DEFINE pending == {f \in File : status[f] = "PENDING" /\ file[f].owner = u}
    <2>1. Bytes(pending) \subseteq Bytes(Owed(u)) /\ Owed(u) \in SUBSET File
      BY Zenon DEF Bytes, Owed
    <2>2. IsFiniteSet(Bytes(Owed(u))) /\ Cardinality(Bytes(Owed(u))) \in Nat
      BY <1>1, <2>1, BytesFinite, Zenon
    <2>3. Cardinality(Bytes(pending)) <= Cardinality(Bytes(Owed(u)))
      BY <2>1, <2>2, FS_Subset, Zenon
    <2>4. Cardinality(Bytes(pending)) \in Nat
      BY <2>1, <2>2, FS_Subset, FS_CardinalityType, Zenon
    <2>5. used[u] + Cardinality(Bytes(Owed(u))) <= Quota
      BY <1>1, Zenon DEF QInv, Within
    <2>6. used[u] \in Nat /\ Quota \in Nat
      BY <1>1, MediaAssumption, Zenon DEF MediaAssumption, IInv, TypeOK
    <2>7. PendingBytes(u) = Cardinality(Bytes(pending))
      BY Zenon DEF PendingBytes
    <2> HIDE DEF pending
    <2> QED
      BY <2>2, <2>3, <2>4, <2>5, <2>6, <2>7, SMTT(30)
  <1> QED
    BY <1>1, QuotaInvariance, PTL
=============================================================================
