------------------------------- MODULE EventLake -------------------------------
(***************************************************************************)
(* The international event lake (research/international_event_lake.py) and *)
(* its three writers: restore_international_event_lake.py, which copies    *)
(* local files, acquire_official_international_events.py, which also       *)
(* downloads, and build_international_event_lake_manifest.py, which        *)
(* rebuilds the index.  Objects are content-addressed and written whole;   *)
(* the manifest is appended to; the index is read at the start of a run    *)
(* and replaced whole at its end.  Nothing locks the lake: a job started   *)
(* again beside the child of a killed supervisor overlaps it.              *)
(*                                                                         *)
(* An object is the match it is of and the version of its content; of a    *)
(* record, those two are kept.                                             *)
(***************************************************************************)
EXTENDS Naturals, Sequences, FiniteSets

CONSTANTS
  Matches,     \* the exact international bridge
  Versions,    \* contents a valid file of a match can have
  Workers,     \* processes that can write the lake
  FaultKinds,  \* which of AllFaults can happen
  MaxFaults,   \* bound: how many faults happen
  MaxRuns      \* bound: how many runs are started

AllFaults == {"kill",     \* a run ends between two steps
              "cut",      \* a run ends while it appends to the manifest
              "update",   \* a local file appears, changes or breaks
              "overlap"}  \* a run starts beside another

None == "none"  \* no file, no entry
Bad  == "bad"   \* a file that does not validate

ASSUME LakeBounds ==
  /\ None \notin Versions /\ Bad \notin Versions /\ "torn" \notin Matches
  /\ FaultKinds \subseteq AllFaults /\ MaxFaults \in Nat /\ MaxRuns \in Nat

Record(m, v) == [match |-> m, version |-> v]
Records == [match : Matches, version : Versions]
Torn    == [match |-> "torn", version |-> "torn"]  \* a line that is not JSON

VARIABLES
  local,     \* the first file of each match under the local roots
  objects,   \* the objects on disk
  manifest,  \* the lines of the manifest
  open,      \* its last line has no newline
  index,     \* [Matches -> Versions \cup {None}], index_json
  rejected,  \* the matches with a payload in quarantine
  kind,      \* what each worker runs
  pc,        \* where it is
  mem,       \* the index it is to write
  todo,      \* the matches it has still to look at
  later,     \* the matches it has still to download
  item,      \* the record it is storing
  alone,     \* nothing else touched the lake or the files since it started
  last,      \* the last run, while it was alone and nothing happened since
  runs,      \* how many more runs may start
  faults,    \* how many faults of each kind happened
  left       \* how many more may happen

workerVars == <<kind, pc, mem, todo, later, item, alone>>
lakeVars   == <<objects, manifest, open, index, rejected>>
faultVars  == <<faults, left>>
vars == <<local, lakeVars, workerVars, last, runs, faultVars>>

-----------------------------------------------------------------------------
Fault(k) == /\ k \in FaultKinds /\ left > 0
            /\ left' = left - 1
            /\ faults' = [faults EXCEPT ![k] = @ + 1]

NoFault == UNCHANGED faultVars

At(w, label) == pc[w] = label
Goto(w, label) == pc' = [pc EXCEPT ![w] = label]

Running == {w \in Workers : ~At(w, "idle")}

-----------------------------------------------------------------------------
(* The manifest *)

\* An append to a line without its newline makes one line that is not JSON.
WithLine(line) ==
  IF open THEN [manifest EXCEPT ![Len(manifest)] = Torn] ELSE Append(manifest, line)

\* The first line of a match that parses wins.
IsFirst(i, m) == /\ manifest[i].match = m
                 /\ \A j \in DOMAIN manifest : manifest[j].match = m => i <= j

FromManifest ==
  [m \in Matches |->
     IF \E i \in DOMAIN manifest : IsFirst(i, m)
     THEN manifest[CHOOSE i \in DOMAIN manifest : IsFirst(i, m)].version ELSE None]

-----------------------------------------------------------------------------
(* The runs *)

\* Acquire is run without --limit, over all the matches the index lacks.
FirstWork(k) == CASE k = "restore" -> {m \in Matches : local[m] # None}
                  [] k = "acquire" -> {m \in Matches : index[m] = None}
                  [] k = "rebuild" -> {}

StartEmpty(w, k) ==
  /\ At(w, "idle") /\ runs > 0 /\ runs' = runs - 1
  /\ IF Running = {} THEN NoFault ELSE Fault("overlap")
  /\ kind' = [kind EXCEPT ![w] = k]
  /\ mem' = [mem EXCEPT ![w] = [m \in Matches |-> None]]
  /\ todo' = [todo EXCEPT ![w] = FirstWork(k)]
  /\ Goto(w, "work")
  /\ alone' = [v \in Workers |-> v = w /\ Running = {}]
  /\ last' = None
  /\ UNCHANGED <<local, lakeVars, later, item>>

Start(w, k) ==
  /\ At(w, "idle") /\ runs > 0 /\ runs' = runs - 1
  /\ IF Running = {} THEN NoFault ELSE Fault("overlap")
  /\ kind' = [kind EXCEPT ![w] = k]
  /\ mem' = [mem EXCEPT ![w] = IF k = "rebuild" THEN FromManifest ELSE index]
  /\ todo' = [todo EXCEPT ![w] = FirstWork(k)]
  /\ Goto(w, "work")
  /\ alone' = [v \in Workers |-> v = w /\ Running = {}]
  /\ last' = None
  /\ UNCHANGED <<local, lakeVars, later, item>>

\* Both copying runs look at each local file once; a broken one hides a good one
\* under the next root.  A download is left for later.
Looks(w, m) == At(w, "work") /\ m \in todo[w] /\ todo' = [todo EXCEPT ![w] = @ \ {m}]

PresentByMatch(w, m) == mem[w][m] # None
Present(w, m) == mem[w][m] = local[m] /\ Record(m, local[m]) \in objects

\* restore, lines 79-84
SkipPresent(w, m) ==
  /\ Looks(w, m) /\ kind[w] = "restore" /\ local[m] \in Versions /\ Present(w, m)
  /\ UNCHANGED <<local, lakeVars, kind, pc, mem, later, item, alone, last, runs, faultVars>>

NoLocalFile(w, m) ==
  /\ Looks(w, m) /\ local[m] \in {None, Bad}
  /\ rejected' = IF local[m] = Bad THEN rejected \cup {m} ELSE rejected
  /\ later' = IF kind[w] = "acquire" THEN [later EXCEPT ![w] = @ \cup {m}] ELSE later
  /\ UNCHANGED <<local, objects, manifest, open, index, kind, pc, mem, item, alone, last,
                 runs, faultVars>>

CopyLocal(w, m) ==
  /\ Looks(w, m) /\ local[m] \in Versions
  /\ kind[w] = "restore" => ~Present(w, m)
  /\ item' = [item EXCEPT ![w] = Record(m, local[m])]
  /\ Goto(w, "object")
  /\ UNCHANGED <<local, lakeVars, kind, mem, later, alone, last, runs, faultVars>>

\* A download, in the order they complete: an error (or no --allow-network), a body
\* that is refused, or a version.
Download(w, m) ==
  /\ At(w, "work") /\ todo[w] = {} /\ m \in later[w]
  /\ later' = [later EXCEPT ![w] = @ \ {m}]
  /\ \/ UNCHANGED <<rejected, item, pc>>
     \/ rejected' = rejected \cup {m} /\ UNCHANGED <<item, pc>>
     \/ /\ \E v \in Versions : item' = [item EXCEPT ![w] = Record(m, v)]
        /\ Goto(w, "object") /\ UNCHANGED rejected
  /\ UNCHANGED <<local, objects, manifest, open, index, kind, mem, todo, alone, last,
                 runs, faultVars>>

\* store_object: the object whole, then the line, then the entry in memory.
PutObject(w) ==
  /\ At(w, "object")
  /\ objects' = objects \cup {item[w]}
  /\ Goto(w, "line")
  /\ UNCHANGED <<local, manifest, open, index, rejected, kind, mem, todo, later, item, alone,
                 last, runs, faultVars>>

EnterOnly(w) ==
  /\ At(w, "line")
  /\ mem' = [mem EXCEPT ![w][item[w].match] = item[w].version]
  /\ Goto(w, "work")
  /\ UNCHANGED <<local, lakeVars, kind, todo, later, item, alone, last, runs, faultVars>>

AppendManifest(w) ==
  /\ At(w, "line")
  /\ manifest' = WithLine(item[w]) /\ open' = FALSE
  /\ mem' = [mem EXCEPT ![w][item[w].match] = item[w].version]
  /\ Goto(w, "work")
  /\ UNCHANGED <<local, objects, index, rejected, kind, todo, later, item, alone, last,
                 runs, faultVars>>

WriteIndex(w) ==
  /\ At(w, "work") /\ todo[w] = {} /\ later[w] = {}
  /\ index' = mem[w]
  /\ Goto(w, "idle")
  /\ last' = IF alone[w] THEN kind[w] ELSE None
  /\ UNCHANGED <<local, objects, manifest, open, rejected, kind, mem, todo, later, item,
                 alone, runs, faultVars>>

-----------------------------------------------------------------------------
(* The machine *)

Ends(w) == /\ Goto(w, "idle")
           /\ todo' = [todo EXCEPT ![w] = {}] /\ later' = [later EXCEPT ![w] = {}]

Kill(w) ==
  /\ ~At(w, "idle") /\ Fault("kill") /\ Ends(w)
  /\ UNCHANGED <<local, lakeVars, kind, mem, item, alone, last, runs>>

\* Part of the line is written, or all of it but the newline.
Cut(w) ==
  /\ At(w, "line") /\ Fault("cut") /\ Ends(w)
  /\ \E line \in {Torn, item[w]} : manifest' = WithLine(line)
  /\ open' = TRUE
  /\ UNCHANGED <<local, objects, index, rejected, kind, mem, item, alone, last, runs>>

Update(m) ==
  /\ Fault("update")
  /\ \E f \in Versions \cup {Bad} : f # local[m] /\ local' = [local EXCEPT ![m] = f]
  /\ alone' = [w \in Workers |-> FALSE] /\ last' = None
  /\ UNCHANGED <<lakeVars, kind, pc, mem, todo, later, item, runs>>

-----------------------------------------------------------------------------
Kinds == {"restore", "acquire", "rebuild"}

Init ==
  /\ local \in [Matches -> Versions \cup {None, Bad}]
  /\ objects = {} /\ manifest = <<>> /\ open = FALSE
  /\ index = [m \in Matches |-> None] /\ rejected = {}
  /\ kind = [w \in Workers |-> "restore"] /\ pc = [w \in Workers |-> "idle"]
  /\ mem = [w \in Workers |-> index]
  /\ todo = [w \in Workers |-> {}] /\ later = [w \in Workers |-> {}]
  /\ item = [w \in Workers |-> Torn] /\ alone = [w \in Workers |-> FALSE]
  /\ last = None /\ runs = MaxRuns
  /\ faults = [k \in AllFaults |-> 0] /\ left = MaxFaults

Stores(w) == PutObject(w) \/ AppendManifest(w) \/ WriteIndex(w)
LooksAt(w, m) == SkipPresent(w, m) \/ NoLocalFile(w, m) \/ CopyLocal(w, m) \/ Download(w, m)

Next == \/ \E w \in Workers : \/ \E k \in Kinds : Start(w, k)
                              \/ \E m \in Matches : LooksAt(w, m)
                              \/ Stores(w) \/ Kill(w) \/ Cut(w)
        \/ \E m \in Matches : Update(m)

Spec == Init /\ [][Next]_vars

-----------------------------------------------------------------------------
(* Properties *)

Entries == [Matches -> Versions \cup {None}]

\* The types of the variables.
TypeOK ==
  /\ local \in [Matches -> Versions \cup {None, Bad}]
  /\ objects \subseteq Records /\ manifest \in Seq(Records \cup {Torn})
  /\ open \in BOOLEAN /\ (open => manifest # <<>>)
  /\ index \in Entries /\ rejected \subseteq Matches
  /\ kind \in [Workers -> Kinds] /\ mem \in [Workers -> Entries]
  /\ pc \in [Workers -> {"idle", "work", "object", "line"}]
  /\ todo \in [Workers -> SUBSET Matches] /\ later \in [Workers -> SUBSET Matches]
  /\ item \in [Workers -> Records \cup {Torn}]
  /\ \A w \in Workers : At(w, "object") \/ At(w, "line") => item[w] \in Records
  /\ alone \in [Workers -> BOOLEAN] /\ last \in Kinds \cup {None}
  /\ runs \in 0..MaxRuns /\ left \in 0..MaxFaults /\ faults \in [AllFaults -> Nat]

Lines == {manifest[i] : i \in DOMAIN manifest}

\* What the sentinel and the retention check rely on (international_event_lake.py:368,
\* verify_international_event_lake_retention.py:40-59): an indexed match has its
\* object, and its line in the manifest unless one was cut.
IndexBacked ==
  \A m \in Matches : index[m] # None =>
    /\ Record(m, index[m]) \in objects
    /\ faults["cut"] = 0 => Record(m, index[m]) \in Lines

\* A match leaves the index only when an overlapping run writes an older index over
\* it, or a rebuild follows a cut line.
EntriesKept ==
  [][\A m \in Matches : index[m] # None /\ index'[m] = None =>
       \/ faults["cut"] > 0
       \/ faults["overlap"] > 0 /\ \E w \in Workers : At(w, "work") /\ ~alone[w]]_vars

\* Whatever was killed, cut or overwritten before, one restore that nothing disturbs
\* indexes every valid local file at its present content, one acquire indexes a
\* match for each, and one rebuild every match the manifest still has a line for.
LakeRepaired ==
  /\ last = "restore" => \A m \in Matches : local[m] \in Versions => index[m] = local[m]
  /\ last = "acquire" => \A m \in Matches : local[m] \in Versions => index[m] # None
  /\ last = "rebuild" => \A line \in Lines \ {Torn} : index[line.match] # None
=============================================================================
