---------------------------- MODULE EventLakeProofs ----------------------------
(***************************************************************************)
(* Proofs about the event lake, for every set of matches, contents and     *)
(* workers, and every number of faults and runs.                           *)
(***************************************************************************)
EXTENDS EventLake, FiniteSetTheorems, WellFoundedInduction, TLAPS

Labels == {"idle", "work", "object", "line"}

LEMMA NamesDiffer == /\ None \notin Versions /\ Bad \notin Versions /\ None # Bad
                     /\ Torn \notin Records
BY LakeBounds DEF None, Bad, Torn, Records

LEMMA RecordType == \A m \in Matches, v \in Versions :
  /\ Record(m, v) \in Records /\ Record(m, v).match = m /\ Record(m, v).version = v
BY DEF Record, Records

LEMMA FaultType ==
  ASSUME TypeOK, NEW k, Fault(k)
  PROVE  /\ left' \in 0..MaxFaults /\ faults' \in [AllFaults -> Nat] /\ k \in AllFaults
         /\ faults' = [faults EXCEPT ![k] = @ + 1]
<1>1. k \in AllFaults /\ faults \in [AllFaults -> Nat] /\ left \in 0..MaxFaults
  BY LakeBounds DEF Fault, TypeOK
<1> QED BY <1>1, LakeBounds DEF Fault

LEMMA WithLineType ==
  ASSUME TypeOK, NEW line \in Records \cup {Torn}
  PROVE  /\ WithLine(line) \in Seq(Records \cup {Torn}) /\ WithLine(line) # <<>>
         /\ ~open => WithLine(line) = Append(manifest, line)
         /\ \A i \in DOMAIN WithLine(line) :
              WithLine(line)[i] \in {line, Torn} \/
              (i \in DOMAIN manifest /\ WithLine(line)[i] = manifest[i])
<1> DEFINE S == Records \cup {Torn}
<1>1. manifest \in Seq(S) /\ Torn \in S /\ line \in S
  BY DEF TypeOK
<1> HIDE DEF S
<1>2. CASE open
  <2>1. manifest # <<>> /\ WithLine(line) = [manifest EXCEPT ![Len(manifest)] = Torn]
    BY <1>2 DEF WithLine, TypeOK
  <2>2. WithLine(line) \in Seq(S) /\ WithLine(line) # <<>>
    BY <1>1, <2>1
  <2>3. \A i \in DOMAIN WithLine(line) : WithLine(line)[i] = Torn \/
          (i \in DOMAIN manifest /\ WithLine(line)[i] = manifest[i])
    BY <1>1, <2>1
  <2> QED BY <1>2, <2>2, <2>3 DEF S
<1>3. CASE ~open
  <2>1. WithLine(line) = Append(manifest, line)
    BY <1>3 DEF WithLine
  <2>2. WithLine(line) \in Seq(S) /\ WithLine(line) # <<>>
    BY <1>1, <2>1
  <2>3. \A i \in DOMAIN WithLine(line) : WithLine(line)[i] = line \/
          (i \in DOMAIN manifest /\ WithLine(line)[i] = manifest[i])
    BY <1>1, <2>1
  <2> QED BY <1>3, <2>1, <2>2, <2>3 DEF S
<1> QED BY <1>2, <1>3

\* The rebuilt entry of a match is that of one of its lines.
LEMMA FromManifestType ==
  ASSUME TypeOK
  PROVE  /\ FromManifest \in Entries
         /\ \A m \in Matches : FromManifest[m] # None =>
              \E i \in DOMAIN manifest : /\ manifest[i] \in Records
                                         /\ manifest[i] = Record(m, FromManifest[m])
<1>1. \A i \in DOMAIN manifest : manifest[i] \in Records \cup {Torn}
  <2> DEFINE S == Records \cup {Torn}
  <2>1. manifest \in Seq(S)
    BY DEF TypeOK
  <2> HIDE DEF S
  <2>2. \A i \in DOMAIN manifest : manifest[i] \in S
    BY <2>1
  <2> QED BY <2>2 DEF S
<1>2. ASSUME NEW m \in Matches
      PROVE  /\ FromManifest[m] \in Versions \cup {None}
             /\ FromManifest[m] # None =>
                  \E i \in DOMAIN manifest : /\ manifest[i] \in Records
                                             /\ manifest[i] = Record(m, FromManifest[m])
  <2>1. CASE \E i \in DOMAIN manifest : IsFirst(i, m)
    <3> DEFINE first == CHOOSE i \in DOMAIN manifest : IsFirst(i, m)
    <3>1. first \in DOMAIN manifest /\ manifest[first].match = m
      BY <2>1 DEF IsFirst
    <3>2. manifest[first] \in Records
      BY <3>1, <1>1, LakeBounds DEF Torn
    <3>3. FromManifest[m] = manifest[first].version
      BY <2>1 DEF FromManifest
    <3> QED BY <3>1, <3>2, <3>3 DEF Records, Record
  <2>2. CASE ~\E i \in DOMAIN manifest : IsFirst(i, m)
    BY <2>2 DEF FromManifest
  <2> QED BY <2>1, <2>2
<1> QED BY <1>2 DEF FromManifest, Entries

LEMMA StartType ==
  ASSUME TypeOK, NEW w \in Workers, NEW k \in Kinds, Start(w, k)
  PROVE  TypeOK'
<1>1. FirstWork(k) \in SUBSET Matches
  BY DEF FirstWork, Kinds
<1>2. left' \in 0..MaxFaults /\ faults' \in [AllFaults -> Nat]
  BY FaultType DEF Start, NoFault, faultVars, TypeOK
<1>3. mem' \in [Workers -> Entries]
  BY FromManifestType DEF Start, TypeOK
<1>4. /\ kind' \in [Workers -> Kinds] /\ todo' \in [Workers -> SUBSET Matches]
      /\ alone' \in [Workers -> BOOLEAN] /\ last' \in Kinds \cup {None}
      /\ runs' \in 0..MaxRuns
  BY <1>1, LakeBounds DEF Start, TypeOK
<1>5. pc' \in [Workers -> Labels]
  BY DEF Start, Goto, TypeOK, Labels
<1>6. \A v \in Workers : pc'[v] \in {"object", "line"} => item'[v] \in Records
  BY DEF Start, Goto, TypeOK, At
<1>7. UNCHANGED <<local, lakeVars, later, item>>
  BY DEF Start
<1> QED BY <1>2, <1>3, <1>4, <1>5, <1>6, <1>7 DEF TypeOK, At, Labels, lakeVars

LEMMA LooksType ==
  ASSUME TypeOK, NEW w \in Workers, NEW m \in Matches, LooksAt(w, m)
  PROVE  TypeOK'
<1>1. /\ \A S : [todo EXCEPT ![w] = @ \ S] \in [Workers -> SUBSET Matches]
      /\ \A S : [later EXCEPT ![w] = @ \ S] \in [Workers -> SUBSET Matches]
      /\ [later EXCEPT ![w] = @ \cup {m}] \in [Workers -> SUBSET Matches]
      /\ \A v \in Versions : [item EXCEPT ![w] = Record(m, v)] \in [Workers -> Records \cup {Torn}]
  BY RecordType DEF TypeOK
<1>2. CASE SkipPresent(w, m)
  <2>1. todo' \in [Workers -> SUBSET Matches]
    BY <1>1, <1>2 DEF SkipPresent, Looks
  <2> QED BY <2>1, <1>2 DEF SkipPresent, TypeOK, At, lakeVars, faultVars
<1>3. CASE NoLocalFile(w, m)
  <2>1. todo' \in [Workers -> SUBSET Matches]
    BY <1>1, <1>3 DEF NoLocalFile, Looks
  <2>2. later' \in [Workers -> SUBSET Matches] /\ rejected' \subseteq Matches
    BY <1>1, <1>3 DEF NoLocalFile, TypeOK
  <2> QED BY <2>1, <2>2, <1>3 DEF NoLocalFile, TypeOK, At, faultVars
<1>4. ASSUME NEW v \in Versions, pc' = [pc EXCEPT ![w] = "object"],
             item' = [item EXCEPT ![w] = Record(m, v)]
      PROVE  /\ pc' \in [Workers -> Labels] /\ item' \in [Workers -> Records \cup {Torn}]
             /\ \A u \in Workers : pc'[u] \in {"object", "line"} => item'[u] \in Records
  <2>1. pc' \in [Workers -> Labels]
    BY <1>4 DEF TypeOK, Labels
  <2>2. \A u \in Workers : u # w => pc'[u] = pc[u] /\ item'[u] = item[u]
    BY <1>4 DEF TypeOK
  <2>3. item'[w] \in Records
    BY <1>4, RecordType DEF TypeOK
  <2> QED BY <2>1, <2>2, <2>3, <1>1, <1>4 DEF TypeOK, At
<1>5. CASE CopyLocal(w, m)
  <2>1. todo' \in [Workers -> SUBSET Matches]
    BY <1>1, <1>5 DEF CopyLocal, Looks
  <2>2. /\ pc' \in [Workers -> Labels] /\ item' \in [Workers -> Records \cup {Torn}]
        /\ \A u \in Workers : pc'[u] \in {"object", "line"} => item'[u] \in Records
    BY <1>4, <1>5 DEF CopyLocal, Goto
  <2> QED BY <2>1, <2>2, <1>5 DEF CopyLocal, TypeOK, At, lakeVars, faultVars, Labels
<1>6. CASE Download(w, m)
  <2>1. later' \in [Workers -> SUBSET Matches] /\ rejected' \subseteq Matches
    BY <1>1, <1>6 DEF Download, TypeOK
  <2>2. CASE UNCHANGED <<item, pc>>
    BY <2>1, <2>2, <1>6 DEF Download, TypeOK, At, faultVars
  <2>3. CASE \E v \in Versions : /\ item' = [item EXCEPT ![w] = Record(m, v)]
                                /\ pc' = [pc EXCEPT ![w] = "object"]
    <3>1. /\ pc' \in [Workers -> Labels] /\ item' \in [Workers -> Records \cup {Torn}]
          /\ \A u \in Workers : pc'[u] \in {"object", "line"} => item'[u] \in Records
      BY <1>4, <2>3
    <3> QED BY <2>1, <3>1, <1>6 DEF Download, TypeOK, At, faultVars, Labels
  <2> QED BY <2>2, <2>3, <1>6 DEF Download, Goto
<1> QED BY <1>2, <1>3, <1>5, <1>6 DEF LooksAt

LEMMA StoresType ==
  ASSUME TypeOK, NEW w \in Workers, Stores(w)
  PROVE  TypeOK'
<1>1. CASE PutObject(w)
  <2>1. item[w] \in Records /\ objects' \subseteq Records
    BY <1>1 DEF PutObject, TypeOK, At
  <2>2. pc' \in [Workers -> Labels]
    BY <1>1 DEF PutObject, Goto, TypeOK, Labels
  <2>3. \A u \in Workers : pc'[u] \in {"object", "line"} => item[u] \in Records
    BY <2>1, <1>1 DEF PutObject, Goto, TypeOK, At
  <2> QED BY <2>1, <2>2, <2>3, <1>1 DEF PutObject, TypeOK, At, faultVars, Labels
<1>2. CASE AppendManifest(w)
  <2>1. item[w] \in Records
    BY <1>2 DEF AppendManifest, TypeOK, At
  <2>2. manifest' \in Seq(Records \cup {Torn})
    BY <2>1, <1>2, WithLineType DEF AppendManifest
  <2>3. mem' \in [Workers -> Entries]
    <3>1. item[w].match \in Matches /\ item[w].version \in Versions
      BY <2>1 DEF Records
    <3>2. [mem[w] EXCEPT ![item[w].match] = item[w].version] \in Entries
      BY <3>1 DEF TypeOK, Entries
    <3>3. mem' = [mem EXCEPT ![w] = [mem[w] EXCEPT ![item[w].match] = item[w].version]]
      BY <1>2 DEF AppendManifest, TypeOK
    <3> QED BY <3>2, <3>3 DEF TypeOK
  <2>4. pc' \in [Workers -> Labels]
    BY <1>2 DEF AppendManifest, Goto, TypeOK, Labels
  <2>5. \A u \in Workers : pc'[u] \in {"object", "line"} => item[u] \in Records
    BY <1>2 DEF AppendManifest, Goto, TypeOK, At
  <2>6. open' = FALSE
    BY <1>2 DEF AppendManifest
  <2> QED BY <2>2, <2>3, <2>4, <2>5, <2>6, <1>2 DEF AppendManifest, TypeOK, At, faultVars, Labels
<1>3. CASE WriteIndex(w)
  <2>1. index' \in Entries /\ last' \in Kinds \cup {None}
    BY <1>3 DEF WriteIndex, TypeOK
  <2>2. pc' \in [Workers -> Labels]
    BY <1>3 DEF WriteIndex, Goto, TypeOK, Labels
  <2>3. \A u \in Workers : pc'[u] \in {"object", "line"} => item[u] \in Records
    BY <1>3 DEF WriteIndex, Goto, TypeOK, At
  <2> QED BY <2>1, <2>2, <2>3, <1>3 DEF WriteIndex, TypeOK, At, faultVars, Labels
<1> QED BY <1>1, <1>2, <1>3 DEF Stores

LEMMA EndsType ==
  ASSUME TypeOK, NEW w \in Workers, Ends(w)
  PROVE  /\ pc' \in [Workers -> Labels]
         /\ todo' \in [Workers -> SUBSET Matches] /\ later' \in [Workers -> SUBSET Matches]
         /\ \A u \in Workers : pc'[u] \in {"object", "line"} => item[u] \in Records
BY DEF Ends, Goto, TypeOK, At, Labels

LEMMA CrashType ==
  ASSUME TypeOK, NEW w \in Workers, Kill(w) \/ Cut(w)
  PROVE  TypeOK'
<1>1. CASE Kill(w)
  BY <1>1, EndsType, FaultType DEF Kill, TypeOK, At, lakeVars, Labels
<1>2. CASE Cut(w)
  <2>1. item[w] \in Records
    BY <1>2 DEF Cut, TypeOK, At
  <2>2. manifest' \in Seq(Records \cup {Torn}) /\ manifest' # <<>>
    BY <2>1, <1>2, WithLineType DEF Cut
  <2>3. Ends(w) /\ left' \in 0..MaxFaults /\ faults' \in [AllFaults -> Nat] /\ open' = TRUE
    BY <1>2, FaultType DEF Cut
  <2> QED BY <2>2, <2>3, <1>2, EndsType DEF Cut, TypeOK, At, Labels
<1> QED BY <1>1, <1>2

LEMMA TypeStep == TypeOK /\ [Next]_vars => TypeOK'
<1> SUFFICES ASSUME TypeOK, [Next]_vars PROVE TypeOK'
  OBVIOUS
<1>1. ASSUME NEW w \in Workers, NEW k \in Kinds, Start(w, k) PROVE TypeOK'
  BY <1>1, StartType
<1>2. ASSUME NEW w \in Workers, NEW m \in Matches, LooksAt(w, m) PROVE TypeOK'
  BY <1>2, LooksType
<1>3. ASSUME NEW w \in Workers, Stores(w) PROVE TypeOK'
  BY <1>3, StoresType
<1>4. ASSUME NEW w \in Workers, Kill(w) \/ Cut(w) PROVE TypeOK'
  BY <1>4, CrashType
<1>5. ASSUME NEW m \in Matches, Update(m) PROVE TypeOK'
  <2>1. local' \in [Matches -> Versions \cup {None, Bad}]
    BY <1>5 DEF Update, TypeOK
  <2>2. left' \in 0..MaxFaults /\ faults' \in [AllFaults -> Nat]
    BY <1>5, FaultType DEF Update
  <2> QED BY <2>1, <2>2, <1>5 DEF Update, TypeOK, At, lakeVars
<1>6. CASE UNCHANGED vars
  BY <1>6 DEF vars, lakeVars, workerVars, faultVars, TypeOK, At
<1> QED BY <1>1, <1>2, <1>3, <1>4, <1>5, <1>6 DEF Next

LEMMA InitType == Init => TypeOK
<1> SUFFICES ASSUME Init PROVE TypeOK
  OBVIOUS
<1>1. /\ index \in Entries /\ mem \in [Workers -> Entries] /\ rejected \subseteq Matches
      /\ kind \in [Workers -> Kinds] /\ last \in Kinds \cup {None}
  BY DEF Init, Entries, Kinds
<1>2. /\ pc \in [Workers -> Labels] /\ \A w \in Workers : pc[w] = "idle"
      /\ todo \in [Workers -> SUBSET Matches] /\ later \in [Workers -> SUBSET Matches]
      /\ item \in [Workers -> Records \cup {Torn}] /\ alone \in [Workers -> BOOLEAN]
  BY DEF Init, Labels
<1>3. runs \in 0..MaxRuns /\ left \in 0..MaxFaults /\ faults \in [AllFaults -> Nat]
  BY LakeBounds DEF Init
<1>4. /\ local \in [Matches -> Versions \cup {None, Bad}] /\ objects \subseteq Records
      /\ open = FALSE
  BY DEF Init
<1>5. manifest \in Seq(Records \cup {Torn})
  <2> DEFINE S == Records \cup {Torn}
  <2> HIDE DEF S
  <2>1. manifest \in Seq(S)
    BY DEF Init
  <2> QED BY <2>1 DEF S
<1> QED BY <1>1, <1>2, <1>3, <1>4, <1>5 DEF TypeOK, At, Labels

\* The variables keep their types.
THEOREM TypeCorrect == Spec => []TypeOK
BY InitType, TypeStep, PTL DEF Spec

-----------------------------------------------------------------------------
(* An indexed match has its object and its line.                             *)

Intact == faults["cut"] = 0

LinesStored == \A i \in DOMAIN manifest : manifest[i] \in Records => manifest[i] \in objects

\* Every line ends, while none was cut: an append adds one and changes none.
LinesEnd == Intact => ~open

Backed(entries) ==
  \A m \in Matches : entries[m] # None =>
    /\ Record(m, entries[m]) \in objects
    /\ Intact => Record(m, entries[m]) \in Lines

\* What a run is about to write is as sound as what it has read.
MemBacked == \A w \in Workers : ~At(w, "idle") => Backed(mem[w])

\* The object is on disk before its line is written.
ItemStored == \A w \in Workers : At(w, "line") => item[w] \in objects

LakeInv == /\ TypeOK /\ LinesStored /\ LinesEnd /\ ItemStored
           /\ MemBacked /\ Backed(index)

\* Objects and lines are only added.
Grows == /\ objects \subseteq objects'
         /\ (Intact' => Intact) /\ (Intact' => Lines \subseteq Lines')

LEMMA GrowingKeeps ==
  ASSUME Grows, NEW entries, Backed(entries)
  PROVE  \A m \in Matches : entries[m] # None =>
           /\ Record(m, entries[m]) \in objects'
           /\ Intact' => Record(m, entries[m]) \in Lines'
BY DEF Grows, Backed

LEMMA IntactBackwards ==
  ASSUME TypeOK, [Next]_vars
  PROVE  /\ Intact' => Intact
         /\ \A w \in Workers : Cut(w) => ~Intact'
<1>1. ASSUME NEW k, Fault(k)
      PROVE  /\ k = "cut" => ~Intact'
             /\ k # "cut" => faults'["cut"] = faults["cut"]
  <2>1. faults' = [faults EXCEPT ![k] = @ + 1] /\ faults \in [AllFaults -> Nat] /\ k \in AllFaults
    BY <1>1, FaultType DEF TypeOK
  <2>2. "cut" \in AllFaults /\ faults["cut"] \in Nat
    BY <2>1 DEF AllFaults
  <2> QED BY <2>1, <2>2 DEF Intact
<1>2. \A w \in Workers : Cut(w) => ~Intact'
  BY <1>1 DEF Cut
<1>3. \/ faults' = faults \/ (\E w \in Workers : Cut(w))
      \/ \E k \in {"kill", "update", "overlap"} : Fault(k)
  <2>1. CASE \E w \in Workers, k \in Kinds : Start(w, k)
    BY <2>1 DEF Start, NoFault, faultVars
  <2>2. CASE \E w \in Workers, m \in Matches : LooksAt(w, m)
    BY <2>2 DEF LooksAt, SkipPresent, NoLocalFile, CopyLocal, Download, faultVars
  <2>3. CASE \E w \in Workers : Stores(w)
    BY <2>3 DEF Stores, PutObject, AppendManifest, WriteIndex, faultVars
  <2>4. CASE \E w \in Workers : Kill(w) \/ Cut(w)
    BY <2>4 DEF Kill
  <2>5. CASE \E m \in Matches : Update(m)
    BY <2>5 DEF Update
  <2>6. CASE UNCHANGED vars
    BY <2>6 DEF vars, faultVars
  <2> QED BY <2>1, <2>2, <2>3, <2>4, <2>5, <2>6 DEF Next
<1> QED BY <1>1, <1>2, <1>3 DEF Intact

LEMMA StartKeeps ==
  ASSUME LakeInv, TypeOK', Intact' => Intact, NEW w \in Workers, NEW k \in Kinds, Start(w, k)
  PROVE  LakeInv'
<1>1. UNCHANGED <<objects, manifest, open, index, item>>
  BY DEF Start, lakeVars
<1>2. Grows
  BY <1>1 DEF Grows, Lines
<1>3. LinesStored' /\ LinesEnd'
  BY <1>1 DEF LakeInv, LinesStored, LinesEnd
<1>4. pc' = [pc EXCEPT ![w] = "work"] /\ pc \in [Workers -> Labels]
  BY DEF Start, Goto, LakeInv, TypeOK, Labels
<1>5. ItemStored'
  BY <1>1, <1>4 DEF LakeInv, ItemStored, At
<1>6. Backed(index)'
  BY <1>1, <1>2, GrowingKeeps DEF LakeInv, Backed
<1>7. Backed(FromManifest)
  BY FromManifestType DEF LakeInv, Backed, LinesStored, Lines
<1>8. MemBacked'
  <2> SUFFICES ASSUME NEW u \in Workers, pc'[u] # "idle"
               PROVE  Backed(mem[u])'
    BY DEF MemBacked, At
  <2>1. CASE u = w
    <3>1. mem'[u] = IF k = "rebuild" THEN FromManifest ELSE index
      BY <2>1 DEF Start, LakeInv, TypeOK
    <3>2. Backed(mem'[u])
      BY <3>1, <1>7 DEF LakeInv
    <3> QED BY <3>2, <1>2, GrowingKeeps DEF Backed
  <2>2. CASE u # w
    <3>1. mem'[u] = mem[u] /\ pc[u] # "idle"
      BY <2>2, <1>4 DEF Start, LakeInv, TypeOK
    <3>2. Backed(mem[u])
      BY <3>1 DEF LakeInv, MemBacked, At
    <3> QED BY <3>1, <3>2, <1>2, GrowingKeeps DEF Backed
  <2> QED BY <2>1, <2>2
<1> QED BY <1>3, <1>5, <1>6, <1>8 DEF LakeInv

\* Steps that touch neither the lake nor a run's memory.
LEMMA QuietKeeps ==
  ASSUME LakeInv, TypeOK', Intact' => Intact,
         UNCHANGED <<objects, manifest, open, index, mem>>,
         \A u \in Workers : /\ pc[u] = "idle" => pc'[u] = "idle"
                            /\ pc'[u] = "line" => pc[u] = "line" /\ item'[u] = item[u]
  PROVE  LakeInv'
<1>1. Grows
  BY DEF Grows, Lines
<1>2. LinesStored' /\ LinesEnd' /\ ItemStored'
  BY DEF LakeInv, LinesStored, LinesEnd, ItemStored, At
<1>3. Backed(index)'
  BY <1>1, GrowingKeeps DEF LakeInv, Backed
<1>4. ASSUME NEW u \in Workers, pc'[u] # "idle" PROVE Backed(mem[u])'
  <2>1. Backed(mem[u])
    BY <1>4 DEF LakeInv, MemBacked, At
  <2> QED BY <2>1, <1>1, GrowingKeeps DEF Backed
<1> QED BY <1>2, <1>3, <1>4 DEF LakeInv, MemBacked, At

LEMMA StoresKeep ==
  ASSUME LakeInv, TypeOK', Intact' => Intact, NEW w \in Workers, Stores(w)
  PROVE  LakeInv'
<1> DEFINE S == Records \cup {Torn}
<1>t. /\ pc \in [Workers -> Labels] /\ item[w] \in S /\ manifest \in Seq(S)
      /\ mem \in [Workers -> Entries]
  BY DEF LakeInv, TypeOK, Labels
<1> HIDE DEF S
<1>1. CASE PutObject(w)
  <2>1. /\ objects' = objects \cup {item[w]} /\ pc' = [pc EXCEPT ![w] = "line"]
        /\ UNCHANGED <<manifest, open, index, mem, item>> /\ pc[w] = "object"
    BY <1>1 DEF PutObject, Goto, At
  <2>2. Grows
    BY <2>1 DEF Grows, Lines
  <2>3. LinesStored' /\ LinesEnd' /\ ItemStored'
    BY <2>1, <1>t DEF LakeInv, LinesStored, LinesEnd, ItemStored, At
  <2>4. Backed(index)'
    BY <2>1, <2>2, GrowingKeeps DEF LakeInv, Backed
  <2>5. ASSUME NEW u \in Workers, pc'[u] # "idle" PROVE Backed(mem[u])'
    <3>1. Backed(mem[u])
      BY <2>1, <2>5, <1>t DEF LakeInv, MemBacked, At
    <3> QED BY <3>1, <2>1, <2>2, GrowingKeeps DEF Backed
  <2> QED BY <2>3, <2>4, <2>5 DEF LakeInv, MemBacked, At
<1>2. CASE AppendManifest(w)
  <2>1. /\ manifest' = WithLine(item[w]) /\ open' = FALSE /\ pc' = [pc EXCEPT ![w] = "work"]
        /\ UNCHANGED <<objects, index, item>> /\ pc[w] = "line"
        /\ mem' = [mem EXCEPT ![w][item[w].match] = item[w].version]
    BY <1>2 DEF AppendManifest, Goto, At
  <2>2. item[w] \in objects /\ item[w] \in Records
    BY <2>1 DEF LakeInv, ItemStored, At, TypeOK
  <2>3. Intact' => /\ manifest' = Append(manifest, item[w])
                   /\ Lines \subseteq Lines' /\ item[w] \in Lines'
    <3> SUFFICES ASSUME Intact' PROVE /\ manifest' = Append(manifest, item[w])
                                      /\ Lines \subseteq Lines' /\ item[w] \in Lines'
      OBVIOUS
    <3>1. manifest' = Append(manifest, item[w])
      BY <2>1, <2>2, WithLineType DEF LakeInv, LinesEnd
    <3> QED BY <3>1, <1>t DEF Lines
  <2>4. Grows
    BY <2>1, <2>3 DEF Grows
  <2>5. LinesStored'
    BY <2>1, <2>2, WithLineType, NamesDiffer DEF LakeInv, LinesStored
  <2>6. LinesEnd' /\ ItemStored'
    BY <2>1, <1>t DEF LakeInv, LinesEnd, ItemStored, At
  <2>7. Backed(index)'
    BY <2>1, <2>4, GrowingKeeps DEF LakeInv, Backed
  <2>8. ASSUME NEW u \in Workers, pc'[u] # "idle" PROVE Backed(mem[u])'
    <3>1. Backed(mem[u])
      BY <2>1, <2>8, <1>t DEF LakeInv, MemBacked, At
    <3>2. CASE u # w
      <4>1. mem'[u] = mem[u]
        BY <3>2, <2>1, <1>t
      <4> QED BY <4>1, <3>1, <2>4, GrowingKeeps DEF Backed
    <3>3. CASE u = w
      <4>1. item[w] = Record(item[w].match, item[w].version)
        BY <2>2 DEF Record, Records
      <4>2. \A m \in Matches : mem'[u][m] =
              IF m = item[w].match THEN item[w].version ELSE mem[u][m]
        BY <3>3, <2>1, <1>t DEF Entries
      <4>3. \A m \in Matches : mem[u][m] # None =>
              /\ Record(m, mem[u][m]) \in objects'
              /\ Intact' => Record(m, mem[u][m]) \in Lines'
        BY <3>1, <2>4, GrowingKeeps
      <4>4. item[w] \in objects' /\ (Intact' => item[w] \in Lines')
        BY <2>1, <2>2, <2>3
      <4> QED BY <4>1, <4>2, <4>3, <4>4 DEF Backed
    <3> QED BY <3>2, <3>3
  <2> QED BY <2>5, <2>6, <2>7, <2>8 DEF LakeInv, MemBacked, At
<1>3. CASE WriteIndex(w)
  <2>1. /\ index' = mem[w] /\ pc' = [pc EXCEPT ![w] = "idle"] /\ pc[w] = "work"
        /\ UNCHANGED <<objects, manifest, open, mem, item>>
    BY <1>3 DEF WriteIndex, Goto, At
  <2>2. Grows
    BY <2>1 DEF Grows, Lines
  <2>3. LinesStored' /\ LinesEnd' /\ ItemStored'
    BY <2>1, <1>t DEF LakeInv, LinesStored, LinesEnd, ItemStored, At
  <2>4. Backed(index)'
    <3>1. Backed(mem[w])
      BY <2>1 DEF LakeInv, MemBacked, At
    <3> QED BY <3>1, <2>1, <2>2, GrowingKeeps DEF Backed
  <2>5. ASSUME NEW u \in Workers, pc'[u] # "idle" PROVE Backed(mem[u])'
    <3>1. Backed(mem[u])
      BY <2>1, <2>5, <1>t DEF LakeInv, MemBacked, At
    <3> QED BY <3>1, <2>1, <2>2, GrowingKeeps DEF Backed
  <2> QED BY <2>3, <2>4, <2>5 DEF LakeInv, MemBacked, At
<1> QED BY <1>1, <1>2, <1>3 DEF Stores

LEMMA CutKeeps ==
  ASSUME LakeInv, TypeOK', NEW w \in Workers, Cut(w), ~Intact', Intact' => Intact
  PROVE  LakeInv'
<1>1. /\ pc' = [pc EXCEPT ![w] = "idle"] /\ pc \in [Workers -> Labels]
      /\ UNCHANGED <<objects, index, item, mem>> /\ pc[w] = "line"
  BY DEF Cut, Ends, Goto, At, LakeInv, TypeOK, Labels
<1>2. Grows
  BY <1>1 DEF Grows
<1>3. PICK line \in {Torn, item[w]} : manifest' = WithLine(line)
  BY DEF Cut
<1>4. item[w] \in objects /\ item[w] \in Records
  BY <1>1 DEF LakeInv, ItemStored, At, TypeOK
<1>5. LinesStored'
  BY <1>1, <1>3, <1>4, WithLineType, NamesDiffer DEF LakeInv, LinesStored
<1>6. LinesEnd' /\ ItemStored'
  BY <1>1 DEF LakeInv, LinesEnd, ItemStored, At
<1>7. Backed(index)'
  BY <1>1, <1>2, GrowingKeeps DEF LakeInv, Backed
<1>8. ASSUME NEW u \in Workers, pc'[u] # "idle" PROVE Backed(mem[u])'
  <2>1. Backed(mem[u])
    BY <1>1, <1>8 DEF LakeInv, MemBacked, At
  <2> QED BY <2>1, <1>1, <1>2, GrowingKeeps DEF Backed
<1> QED BY <1>5, <1>6, <1>7, <1>8 DEF LakeInv, MemBacked, At

LEMMA LakeStep == LakeInv /\ [Next]_vars => LakeInv'
<1> SUFFICES ASSUME LakeInv, [Next]_vars PROVE LakeInv'
  OBVIOUS
<1>1. TypeOK' /\ (Intact' => Intact) /\ \A w \in Workers : Cut(w) => ~Intact'
  BY TypeStep, IntactBackwards DEF LakeInv
<1>2. pc \in [Workers -> Labels] /\ item \in [Workers -> Records \cup {Torn}]
  BY DEF LakeInv, TypeOK, Labels
<1>3. ASSUME NEW w \in Workers, NEW k \in Kinds, Start(w, k) PROVE LakeInv'
  BY <1>1, <1>3, StartKeeps
<1>4. ASSUME NEW w \in Workers, NEW m \in Matches, LooksAt(w, m) PROVE LakeInv'
  <2>1. UNCHANGED <<objects, manifest, open, index, mem>>
    BY <1>4 DEF LooksAt, SkipPresent, NoLocalFile, CopyLocal, Download, lakeVars
  <2>2. \/ pc' = pc /\ item' = item
        \/ /\ pc' = [pc EXCEPT ![w] = "object"] /\ pc[w] = "work"
           /\ \E r : item' = [item EXCEPT ![w] = r]
    BY <1>4 DEF LooksAt, SkipPresent, NoLocalFile, CopyLocal, Download, Looks, Goto, At
  <2>3. \A u \in Workers : /\ pc[u] = "idle" => pc'[u] = "idle"
                           /\ pc'[u] = "line" => pc[u] = "line" /\ item'[u] = item[u]
    BY <2>2, <1>2
  <2> QED BY <1>1, <2>1, <2>3, QuietKeeps
<1>5. ASSUME NEW w \in Workers, Stores(w) PROVE LakeInv'
  BY <1>1, <1>5, StoresKeep
<1>6. ASSUME NEW w \in Workers, Kill(w) PROVE LakeInv'
  <2>1. UNCHANGED <<objects, manifest, open, index, mem, item>> /\ pc' = [pc EXCEPT ![w] = "idle"]
    BY <1>6 DEF Kill, Ends, Goto, lakeVars
  <2>2. \A u \in Workers : /\ pc[u] = "idle" => pc'[u] = "idle"
                           /\ pc'[u] = "line" => pc[u] = "line" /\ item'[u] = item[u]
    BY <2>1, <1>2
  <2> QED BY <1>1, <2>1, <2>2, QuietKeeps
<1>7. ASSUME NEW w \in Workers, Cut(w) PROVE LakeInv'
  BY <1>1, <1>7, CutKeeps
<1>8. CASE (\E m \in Matches : Update(m)) \/ UNCHANGED vars
  <2>1. UNCHANGED <<objects, manifest, open, index, mem, item, pc>>
    BY <1>8 DEF Update, vars, lakeVars, workerVars
  <2> QED BY <1>1, <2>1, QuietKeeps
<1> QED BY <1>3, <1>4, <1>5, <1>6, <1>7, <1>8 DEF Next

\* The guarantee behind run_sentinel (international_event_lake.py:368) and
\* verify_international_event_lake_retention.py: every indexed match has its object and,
\* while no line was cut, its line in the manifest.
THEOREM IndexIsBacked == Spec => []IndexBacked
<1>1. Init => LakeInv
  <2>1. Init => TypeOK
    BY InitType
  <2>2. Init => LinesStored /\ LinesEnd /\ ItemStored /\ MemBacked /\ Backed(index)
    BY DEF Init, LinesStored, LinesEnd, ItemStored, MemBacked, Backed, At
  <2> QED BY <2>1, <2>2 DEF LakeInv
<1>2. LakeInv => IndexBacked
  BY DEF LakeInv, Backed, IndexBacked, Intact
<1> QED BY <1>1, <1>2, LakeStep, PTL DEF Spec

-----------------------------------------------------------------------------
(* A match leaves the index only behind a cut or beside an overlapping run.   *)

LEMMA SmallestNat ==
  ASSUME NEW T, T \subseteq Nat, T # {}
  PROVE  \E n \in T : \A k \in T : n <= k
<1> DEFINE R == OpToRel(<, Nat)
<1>1. IsWellFoundedOn(R, Nat)
  BY NatLessThanWellFounded
<1>2. \A x, y \in Nat : x < y => <<x, y>> \in R
  BY DEF OpToRel
<1> HIDE DEF R
<1>3. PICK n \in T : \A k \in T : ~ (<<k, n>> \in R)
  BY <1>1, WFMin
<1>4. ASSUME NEW k \in T PROVE n <= k
  <2>1. n \in Nat /\ k \in Nat
    OBVIOUS
  <2>2. ~(k < n)
    BY <1>2, <1>3, <2>1
  <2> QED BY <2>1, <2>2
<1> QED BY <1>4

\* The rebuild finds every match the manifest has a line for.
LEMMA FromManifestFinds ==
  ASSUME TypeOK, NEW line \in Lines, line # Torn
  PROVE  line.match \in Matches /\ FromManifest[line.match] # None
<1> DEFINE S == Records \cup {Torn}
           m == line.match
           T == {i \in DOMAIN manifest : manifest[i].match = m}
<1>1. manifest \in Seq(S)
  BY DEF TypeOK
<1>2. (\A i \in DOMAIN manifest : manifest[i] \in S) /\ DOMAIN manifest \subseteq Nat
  <2> HIDE DEF S
  <2> QED BY <1>1
<1>3. line \in Records /\ T # {} /\ T \subseteq Nat
  BY <1>2 DEF Lines
<1>4. m \in Matches
  BY <1>3 DEF Records
<1>5. \E i \in DOMAIN manifest : IsFirst(i, m)
  <2>1. PICK i \in T : \A j \in T : i <= j
    BY <1>3, SmallestNat
  <2> QED BY <2>1 DEF IsFirst
<1>6. FromManifest[m] \in Versions
  <2> DEFINE first == CHOOSE i \in DOMAIN manifest : IsFirst(i, m)
  <2>1. first \in DOMAIN manifest /\ manifest[first].match = m
    BY <1>5 DEF IsFirst
  <2>2. manifest[first] \in Records
    BY <2>1, <1>2, <1>4, LakeBounds DEF Torn
  <2>3. FromManifest[m] = manifest[first].version
    BY <1>4, <1>5 DEF FromManifest
  <2> QED BY <2>2, <2>3 DEF Records
<1> QED BY <1>4, <1>6, NamesDiffer

\* A fault is never undone.
LEMMA FaultsStay ==
  ASSUME TypeOK, [Next]_vars, NEW c \in AllFaults
  PROVE  faults'[c] = 0 => faults[c] = 0
<1>1. ASSUME NEW k, Fault(k) PROVE faults'[c] = 0 => faults[c] = 0
  <2>1. faults' = [faults EXCEPT ![k] = @ + 1] /\ faults \in [AllFaults -> Nat] /\ k \in AllFaults
    BY <1>1, FaultType DEF TypeOK
  <2>2. faults[c] \in Nat /\ faults'[c] \in {faults[c], faults[c] + 1}
    BY <2>1
  <2> QED BY <2>2
<1>2. faults' = faults \/ \E k : Fault(k)
  <2>1. CASE \E w \in Workers, k \in Kinds : Start(w, k)
    BY <2>1 DEF Start, NoFault, faultVars
  <2>2. CASE \E w \in Workers, m \in Matches : LooksAt(w, m)
    BY <2>2 DEF LooksAt, SkipPresent, NoLocalFile, CopyLocal, Download, faultVars
  <2>3. CASE \E w \in Workers : Stores(w)
    BY <2>3 DEF Stores, PutObject, AppendManifest, WriteIndex, faultVars
  <2>4. CASE (\E w \in Workers : Kill(w) \/ Cut(w)) \/ (\E m \in Matches : Update(m))
    BY <2>4 DEF Kill, Cut, Update
  <2>5. CASE UNCHANGED vars
    BY <2>5 DEF vars, faultVars
  <2> QED BY <2>1, <2>2, <2>3, <2>4, <2>5 DEF Next
<1> QED BY <1>1, <1>2

\* A run starts by itself, or beside another: then an overlap is on record and no run
\* is alone any more.
LEMMA StartAlone ==
  ASSUME TypeOK, NEW w \in Workers, NEW k \in Kinds, Start(w, k)
  PROVE  /\ pc' = [pc EXCEPT ![w] = "work"] /\ pc[w] = "idle"
         /\ \A v \in Workers : alone'[v] => v = w
         /\ \/ Running = {} /\ faults' = faults
            \/ faults'["overlap"] # 0 /\ \A v \in Workers : ~alone'[v]
<1>1. pc' = [pc EXCEPT ![w] = "work"] /\ pc[w] = "idle"
  BY DEF Start, Goto, At
<1>2. alone' = [v \in Workers |-> v = w /\ Running = {}]
  BY DEF Start
<1>3. CASE Running = {}
  BY <1>1, <1>2, <1>3 DEF Start, NoFault, faultVars
<1>4. CASE Running # {}
  <2>1. Fault("overlap")
    BY <1>4 DEF Start
  <2>2. faults' = [faults EXCEPT !["overlap"] = @ + 1] /\ faults \in [AllFaults -> Nat]
    BY <2>1, FaultType DEF TypeOK
  <2>3. faults["overlap"] \in Nat /\ faults'["overlap"] = faults["overlap"] + 1
    BY <2>2 DEF AllFaults
  <2>4. \A v \in Workers : ~alone'[v]
    BY <1>2, <1>4
  <2> QED BY <1>1, <1>2, <2>3, <2>4
<1> QED BY <1>3, <1>4

\* Any other step is that of a running worker, and can only end runs or disturb them.
LEMMA OtherSteps ==
  ASSUME TypeOK, [Next]_vars, ~\E w \in Workers, k \in Kinds : Start(w, k), NEW u \in Workers
  PROVE  /\ At(u, "idle") => At(u, "idle")' /\ UNCHANGED <<todo[u], later[u]>>
         /\ kind'[u] = kind[u] /\ (alone'[u] => alone[u])
<1>1. /\ pc \in [Workers -> Labels] /\ todo \in [Workers -> SUBSET Matches]
      /\ later \in [Workers -> SUBSET Matches]
  BY DEF TypeOK, Labels
<1>2. CASE \E w \in Workers, m \in Matches : LooksAt(w, m)
  <2>1. PICK w \in Workers : \E m \in Matches : LooksAt(w, m)
    BY <1>2
  <2>2. /\ pc[w] = "work" /\ pc' \in {pc, [pc EXCEPT ![w] = "object"]}
        /\ UNCHANGED <<kind, alone>>
        /\ \A v \in Workers : v # w => UNCHANGED <<todo[v], later[v]>>
    BY <2>1, <1>1 DEF LooksAt, Looks, SkipPresent, NoLocalFile, CopyLocal, Download, At, Goto
  <2> QED BY <2>2, <1>1 DEF At
<1>3. CASE \E w \in Workers : Stores(w)
  BY <1>1, <1>3 DEF Stores, PutObject, AppendManifest, WriteIndex, At, Goto
<1>4. CASE \E w \in Workers : Kill(w) \/ Cut(w)
  BY <1>1, <1>4 DEF Kill, Cut, Ends, At, Goto
<1>5. CASE \E m \in Matches : Update(m)
  BY <1>1, <1>5 DEF Update, At
<1>6. CASE UNCHANGED vars
  BY <1>6 DEF vars, workerVars, At
<1> QED BY <1>2, <1>3, <1>4, <1>5, <1>6 DEF Next

Undisturbed(w) == ~At(w, "idle") /\ (faults["overlap"] = 0 \/ alone[w])

\* While no run overlapped another, or none this one, it is the only one.
OneRunning == \A w \in Workers : Undisturbed(w) => \A v \in Workers \ {w} : At(v, "idle")

\* Then what it is to write has an entry of every match that is indexed now.
MemCovers ==
  \A w \in Workers : Undisturbed(w) /\ Intact =>
    \A m \in Matches : index[m] # None => mem[w][m] # None

KeptInv == LakeInv /\ OneRunning /\ MemCovers

LEMMA StartCovers ==
  ASSUME KeptInv, [Next]_vars, NEW w \in Workers, NEW k \in Kinds, Start(w, k)
  PROVE  OneRunning' /\ MemCovers'
<1>1. TypeOK /\ pc \in [Workers -> Labels]
  BY DEF KeptInv, LakeInv, TypeOK, Labels
<1>2. /\ pc' = [pc EXCEPT ![w] = "work"]
      /\ \A v \in Workers : alone'[v] => v = w
      /\ \/ Running = {} /\ faults' = faults
         \/ faults'["overlap"] # 0 /\ \A v \in Workers : ~alone'[v]
  BY <1>1, StartAlone
<1>3. CASE faults'["overlap"] # 0 /\ \A v \in Workers : ~alone'[v]
  BY <1>3 DEF OneRunning, MemCovers, Undisturbed
<1>4. CASE Running = {} /\ faults' = faults
  <2>1. \A v \in Workers : v # w => At(v, "idle")'
    BY <1>1, <1>2, <1>4 DEF Running, At
  <2>2. OneRunning'
    BY <2>1 DEF OneRunning, Undisturbed
  <2>3. ASSUME Intact', NEW m \in Matches, index'[m] # None PROVE mem'[w][m] # None
    <3>1. index' = index /\ mem'[w] = IF k = "rebuild" THEN FromManifest ELSE index
      BY <1>1 DEF Start, lakeVars, TypeOK
    <3>2. Record(m, index[m]) \in Lines /\ index[m] \in Versions
      BY <1>1, <1>4, <2>3, <3>1 DEF KeptInv, LakeInv, Backed, Intact, TypeOK, Entries
    <3>3. FromManifest[m] # None
      BY <1>1, <3>2, FromManifestFinds, RecordType, NamesDiffer
    <3> QED BY <2>3, <3>1, <3>3
  <2>4. MemCovers'
    BY <2>1, <2>3 DEF MemCovers, Undisturbed
  <2> QED BY <2>2, <2>4
<1> QED BY <1>2, <1>3, <1>4

\* Only one step writes the index, and only one a run's memory.
LEMMA WhatIsWritten ==
  ASSUME TypeOK, [Next]_vars, ~\E w \in Workers, k \in Kinds : Start(w, k)
  PROVE  /\ \/ index' = index
            \/ \E w \in Workers : WriteIndex(w)
         /\ \/ mem' = mem
            \/ \E w \in Workers : AppendManifest(w)
<1>1. CASE \E w \in Workers, m \in Matches : LooksAt(w, m)
  BY <1>1 DEF LooksAt, SkipPresent, NoLocalFile, CopyLocal, Download, lakeVars
<1>2. CASE \E w \in Workers : Stores(w)
  BY <1>2 DEF Stores, PutObject, AppendManifest, WriteIndex
<1>3. CASE \E w \in Workers : Kill(w) \/ Cut(w)
  BY <1>3 DEF Kill, Cut, lakeVars
<1>4. CASE \E m \in Matches : Update(m)
  BY <1>4 DEF Update, lakeVars
<1>5. CASE UNCHANGED vars
  BY <1>5 DEF vars, lakeVars, workerVars
<1> QED BY <1>1, <1>2, <1>3, <1>4, <1>5 DEF Next

\* An entry a run has, it keeps; storing a record makes one for its match.
LEMMA MemGrows ==
  ASSUME TypeOK, NEW w \in Workers, AppendManifest(w)
  PROVE  /\ item[w].match \in Matches /\ item[w].version \in Versions
         /\ \A u \in Workers : u # w => mem'[u] = mem[u]
         /\ \A m \in Matches : mem'[w][m] =
              IF m = item[w].match THEN item[w].version ELSE mem[w][m]
<1>1. item[w] \in Records
  BY DEF AppendManifest, TypeOK, At
<1>2. /\ mem' = [mem EXCEPT ![w][item[w].match] = item[w].version]
      /\ mem \in [Workers -> Entries]
  BY DEF AppendManifest, TypeOK
<1> QED BY <1>1, <1>2 DEF Records, Entries

LEMMA KeptStep == KeptInv /\ [Next]_vars => KeptInv'
<1> SUFFICES ASSUME KeptInv, [Next]_vars PROVE KeptInv'
  OBVIOUS
<1>1. LakeInv' /\ TypeOK /\ (Intact' => Intact)
  BY LakeStep, IntactBackwards DEF KeptInv, LakeInv
<1>2. CASE \E w \in Workers, k \in Kinds : Start(w, k)
  BY <1>1, <1>2, StartCovers DEF KeptInv
<1>3. CASE ~\E w \in Workers, k \in Kinds : Start(w, k)
  <2>1. \A u \in Workers : /\ At(u, "idle") => At(u, "idle")'
                           /\ Undisturbed(u)' => Undisturbed(u)
    <3>1. faults'["overlap"] = 0 => faults["overlap"] = 0
      BY <1>1, FaultsStay DEF AllFaults
    <3> QED BY <1>1, <1>3, <3>1, OtherSteps DEF Undisturbed
  <2>2. OneRunning'
    BY <2>1 DEF KeptInv, OneRunning
  <2>3. ASSUME NEW u \in Workers, Undisturbed(u)', Intact',
               NEW m \in Matches, index'[m] # None
        PROVE  mem'[u][m] # None
    <3>1. Undisturbed(u) /\ Intact
      BY <1>1, <2>1, <2>3
    <3>2. \A v \in Workers : WriteIndex(v) => v = u /\ At(u, "idle")'
      BY <1>1, <3>1 DEF KeptInv, OneRunning, WriteIndex, Goto, At, TypeOK
    <3>3. index' = index
      BY <1>1, <1>3, <2>3, <3>2, WhatIsWritten DEF Undisturbed
    <3>4. mem[u][m] # None
      BY <2>3, <3>1, <3>3 DEF KeptInv, MemCovers
    <3> QED BY <1>1, <1>3, <3>4, WhatIsWritten, MemGrows, NamesDiffer
  <2> QED BY <1>1, <2>2, <2>3 DEF KeptInv, MemCovers
<1> QED BY <1>2, <1>3

\* The end of a run (write_index, international_event_lake.py) replaces the whole index
\* by what the run read and added: no match is lost by it unless a line was cut or the
\* run was overlapped.
THEOREM EntriesAreKept == Spec => EntriesKept
<1>1. Init => KeptInv
  <2>1. Init => LakeInv
    <3>1. Init => LinesStored /\ LinesEnd /\ ItemStored /\ MemBacked /\ Backed(index)
      BY DEF Init, LinesStored, LinesEnd, ItemStored, MemBacked, Backed, At
    <3> QED BY <3>1, InitType DEF LakeInv
  <2>2. Init => OneRunning /\ MemCovers
    BY DEF Init, OneRunning, MemCovers, Undisturbed, At
  <2> QED BY <2>1, <2>2 DEF KeptInv
<1> DEFINE Keeps == \A m \in Matches : index[m] # None /\ index'[m] = None =>
             \/ faults["cut"] > 0
             \/ faults["overlap"] > 0 /\ \E w \in Workers : At(w, "work") /\ ~alone[w]
<1>2. KeptInv /\ [Next]_vars => [Keeps]_vars
  <2> SUFFICES ASSUME KeptInv, [Next]_vars,
                      NEW m \in Matches, index[m] # None, index'[m] = None
               PROVE  \/ faults["cut"] > 0
                      \/ faults["overlap"] > 0 /\ \E w \in Workers : At(w, "work") /\ ~alone[w]
    OBVIOUS
  <2>1. TypeOK /\ faults["cut"] \in Nat /\ faults["overlap"] \in Nat
    BY DEF KeptInv, LakeInv, TypeOK, AllFaults
  <2>2. ~\E w \in Workers, k \in Kinds : Start(w, k)
    BY DEF Start, lakeVars
  <2>3. PICK w \in Workers : WriteIndex(w)
    BY <2>1, <2>2, WhatIsWritten
  <2>4. At(w, "work") /\ mem[w][m] = None
    BY <2>3 DEF WriteIndex
  <2>5. ~Undisturbed(w) \/ ~Intact
    BY <2>4 DEF KeptInv, MemCovers
  <2> QED BY <2>1, <2>4, <2>5 DEF Undisturbed, Intact, At
<1> QED BY <1>1, <1>2, KeptStep, PTL DEF Spec, EntriesKept

-----------------------------------------------------------------------------
(* One undisturbed run repairs the lake.                                     *)

Holds(w) == At(w, "object") \/ At(w, "line")

\* What a run has still to do: nothing once it ended; only an acquire downloads, and a
\* rebuild stores nothing.
WorkInv == \A w \in Workers :
  /\ At(w, "idle") => todo[w] = {}
  /\ At(w, "idle") \/ kind[w] # "acquire" => later[w] = {}
  /\ kind[w] = "rebuild" => todo[w] = {} /\ ~Holds(w)

Sole(w, k) == kind[w] = k /\ alone[w] /\ ~At(w, "idle")
Looked(w)  == {m \in Matches \ todo[w] : local[m] \in Versions}
Held(w, m) == Holds(w) /\ item[w].match = m

\* What a run that is alone has done so far.
Restored(w) == Sole(w, "restore") =>
  /\ Holds(w) => item[w].version = local[item[w].match]
  /\ \A m \in Looked(w) : mem[w][m] = local[m] \/ Held(w, m)
Acquired(w) == Sole(w, "acquire") => \A m \in Looked(w) : mem[w][m] # None \/ Held(w, m)
Rebuilt(w)  == Sole(w, "rebuild") => \A line \in Lines \ {Torn} : mem[w][line.match] # None
Repairs(w)  == Restored(w) /\ Acquired(w) /\ Rebuilt(w)

Settled == last # None => Running = {} /\ LakeRepaired

RepairInv == KeptInv /\ WorkInv /\ (\A w \in Workers : Repairs(w)) /\ Settled

LEMMA StartRepairs ==
  ASSUME RepairInv, NEW w \in Workers, NEW k \in Kinds, Start(w, k)
  PROVE  WorkInv' /\ (\A v \in Workers : Repairs(v)') /\ Settled'
<1>1. TypeOK /\ pc \in [Workers -> Labels]
  BY DEF RepairInv, KeptInv, LakeInv, TypeOK, Labels
<1>2. /\ pc' = [pc EXCEPT ![w] = "work"] /\ pc[w] = "idle"
      /\ \A v \in Workers : alone'[v] => v = w
  BY <1>1, StartAlone
<1>3. /\ kind' = [kind EXCEPT ![w] = k] /\ kind \in [Workers -> Kinds]
      /\ todo' = [todo EXCEPT ![w] = FirstWork(k)] /\ todo \in [Workers -> SUBSET Matches]
      /\ UNCHANGED <<local, manifest, index, later, item>> /\ last' = None
      /\ mem'[w] = IF k = "rebuild" THEN FromManifest ELSE index
  BY <1>1 DEF Start, TypeOK, lakeVars
<1>4. WorkInv'
  <2>1. (k = "rebuild" => FirstWork(k) = {}) /\ later[w] = {}
    BY <1>2 DEF FirstWork, RepairInv, WorkInv, At
  <2>2. ASSUME NEW v \in Workers, v # w
        PROVE  /\ At(v, "idle")' => todo'[v] = {}
               /\ At(v, "idle")' \/ kind'[v] # "acquire" => later'[v] = {}
               /\ kind'[v] = "rebuild" => todo'[v] = {} /\ ~Holds(v)'
    BY <1>1, <1>2, <1>3, <2>2 DEF RepairInv, WorkInv, Holds, At
  <2>3. ~At(w, "idle")' /\ ~Holds(w)' /\ kind'[w] = k /\ todo'[w] = FirstWork(k)
    BY <1>1, <1>2, <1>3 DEF Holds, At
  <2> QED BY <1>3, <2>1, <2>2, <2>3 DEF WorkInv
<1>5. Repairs(w)'
  <2>1. ~Holds(w)' /\ kind'[w] = k /\ todo'[w] = FirstWork(k)
    BY <1>1, <1>2, <1>3 DEF Holds, At
  <2>2. Restored(w)'
    <3>1. k = "restore" => Looked(w)' = {}
      BY <1>3, <2>1, NamesDiffer DEF Looked, FirstWork
    <3> QED BY <2>1, <3>1 DEF Restored, Sole
  <2>3. Acquired(w)'
    <3>1. k = "acquire" => \A m \in Looked(w)' : index[m] # None
      BY <1>3, <2>1 DEF Looked, FirstWork
    <3> QED BY <1>3, <2>1, <3>1 DEF Acquired, Sole
  <2>4. Rebuilt(w)'
    <3>1. \A line \in Lines \ {Torn} : FromManifest[line.match] # None
      BY <1>1, FromManifestFinds
    <3> QED BY <1>3, <2>1, <3>1 DEF Rebuilt, Sole, Lines
  <2> QED BY <2>2, <2>3, <2>4 DEF Repairs
<1>6. \A v \in Workers : v # w => Repairs(v)'
  BY <1>2 DEF Repairs, Restored, Acquired, Rebuilt, Sole
<1> QED BY <1>3, <1>4, <1>5, <1>6 DEF Settled

\* A run's own steps, while it is alone.
LEMMA LooksRepairs ==
  ASSUME RepairInv, NEW w \in Workers, NEW m \in Matches, LooksAt(w, m)
  PROVE  WorkInv' /\ Repairs(w)'
<1>1. /\ TypeOK /\ pc \in [Workers -> Labels] /\ todo \in [Workers -> SUBSET Matches]
      /\ later \in [Workers -> SUBSET Matches] /\ kind \in [Workers -> Kinds]
      /\ item \in [Workers -> Records \cup {Torn}] /\ WorkInv /\ Repairs(w)
  BY DEF RepairInv, KeptInv, LakeInv, TypeOK, Labels
<1>2. /\ UNCHANGED <<local, manifest, kind, mem, alone>> /\ pc[w] = "work" /\ ~Holds(w)
      /\ pc' \in {pc, [pc EXCEPT ![w] = "object"]}
  BY DEF LooksAt, Looks, SkipPresent, NoLocalFile, CopyLocal, Download, lakeVars, At, Goto, Holds
<1>3. m \in todo[w] \cup later[w] /\ kind[w] # "rebuild"
  <2>1. m \in todo[w] \cup later[w]
    BY DEF LooksAt, Looks, SkipPresent, NoLocalFile, CopyLocal, Download
  <2>2. kind[w] = "rebuild" => todo[w] = {} /\ later[w] = {}
    BY <1>1 DEF WorkInv
  <2> QED BY <2>1, <2>2
<1>4. /\ \A v \in Workers : v # w => UNCHANGED <<todo[v], later[v], pc[v]>>
      /\ later'[w] # {} => kind[w] = "acquire"
  <2>1. later[w] # {} => kind[w] = "acquire"
    BY <1>1 DEF WorkInv
  <2>2. \A v \in Workers : v # w => UNCHANGED <<todo[v], later[v], pc[v]>>
    BY <1>1 DEF LooksAt, Looks, SkipPresent, NoLocalFile, CopyLocal, Download, Goto
  <2>3. later'[w] # {} => later[w] # {} \/ kind[w] = "acquire"
    BY <1>1 DEF LooksAt, SkipPresent, NoLocalFile, CopyLocal, Download
  <2> QED BY <2>1, <2>2, <2>3
<1>5. WorkInv'
  <2>1. ASSUME NEW v \in Workers, v # w
        PROVE  /\ At(v, "idle")' => todo'[v] = {}
               /\ At(v, "idle")' \/ kind'[v] # "acquire" => later'[v] = {}
               /\ kind'[v] = "rebuild" => todo'[v] = {} /\ ~Holds(v)'
    BY <1>1, <1>2, <1>4, <2>1 DEF WorkInv, Holds, At
  <2>2. ~At(w, "idle")' /\ kind' = kind
    BY <1>1, <1>2 DEF At
  <2> QED BY <1>3, <1>4, <2>1, <2>2 DEF WorkInv
<1>6. Sole(w, "restore")' => Sole(w, "restore")
  BY <1>1, <1>2 DEF Sole, At
<1>7. Sole(w, "acquire")' => Sole(w, "acquire")
  BY <1>1, <1>2 DEF Sole, At
<1>8. ASSUME pc' = pc, local[m] \notin Versions \/ todo' = todo
             \/ (kind[w] = "restore" /\ mem[w][m] = local[m]),
             todo'[w] \in {todo[w], todo[w] \ {m}}
      PROVE  Repairs(w)'
  <2>0. ~Holds(w)' /\ (\A n : ~Held(w, n)')
    BY <1>2, <1>8 DEF Holds, Held, At
  <2>1. \A n \in Looked(w)' : n \in Looked(w) \/ (n = m /\ kind[w] = "restore" /\ mem[w][m] = local[m])
    BY <1>2, <1>8 DEF Looked
  <2>2. Restored(w)'
    BY <1>1, <1>2, <1>6, <2>0, <2>1 DEF Restored, Repairs, Held
  <2>3. Acquired(w)'
    BY <1>1, <1>2, <1>7, <2>0, <2>1 DEF Acquired, Repairs, Held, Sole
  <2>4. Rebuilt(w)'
    BY <1>2, <1>3 DEF Rebuilt, Sole
  <2> QED BY <2>2, <2>3, <2>4 DEF Repairs
<1>9. ASSUME pc' = [pc EXCEPT ![w] = "object"], todo'[w] \in {todo[w], todo[w] \ {m}},
             item'[w].match = m,
             \/ kind[w] = "acquire"
             \/ item'[w].version = local[m]
      PROVE  Repairs(w)'
  <2>1. \A n \in Looked(w)' : n \in Looked(w) \/ n = m
    BY <1>2, <1>9 DEF Looked
  <2>2. Held(w, m)'
    BY <1>1, <1>9 DEF Held, Holds, At
  <2>3. Restored(w)'
    BY <1>1, <1>2, <1>6, <1>9, <2>1, <2>2 DEF Restored, Repairs, Held, Sole
  <2>4. Acquired(w)'
    BY <1>1, <1>2, <1>7, <2>1, <2>2 DEF Acquired, Repairs, Held
  <2>5. Rebuilt(w)'
    BY <1>2, <1>3 DEF Rebuilt, Sole
  <2> QED BY <2>3, <2>4, <2>5 DEF Repairs
<1>10. CASE SkipPresent(w, m)
  <2>1. pc' = pc /\ kind[w] = "restore" /\ mem[w][m] = local[m] /\ todo'[w] = todo[w] \ {m}
    BY <1>1, <1>10 DEF SkipPresent, Present, Looks
  <2> QED BY <1>5, <1>8, <2>1
<1>11. CASE NoLocalFile(w, m)
  <2>1. pc' = pc /\ local[m] \notin Versions /\ todo'[w] = todo[w] \ {m}
    BY <1>1, <1>11, NamesDiffer DEF NoLocalFile, Looks
  <2> QED BY <1>5, <1>8, <2>1
<1>12. CASE CopyLocal(w, m)
  <2>1. pc' = [pc EXCEPT ![w] = "object"] /\ todo'[w] = todo[w] \ {m}
    BY <1>1, <1>12 DEF CopyLocal, Looks, Goto
  <2>2. item'[w].match = m /\ item'[w].version = local[m]
    BY <1>1, <1>12 DEF CopyLocal, Record
  <2> QED BY <1>5, <1>9, <2>1, <2>2
<1>13. CASE Download(w, m)
  <2>1. todo' = todo /\ kind[w] = "acquire"
    BY <1>1, <1>13 DEF Download, WorkInv
  <2>2. CASE pc' = pc
    BY <1>5, <1>8, <2>1, <2>2
  <2>3. CASE \E v \in Versions : /\ item' = [item EXCEPT ![w] = Record(m, v)]
                                /\ pc' = [pc EXCEPT ![w] = "object"]
    <3>1. item'[w].match = m
      BY <1>1, <2>3 DEF Record
    <3> QED BY <1>5, <1>9, <2>1, <2>3, <3>1
  <2> QED BY <1>13, <2>2, <2>3 DEF Download, Goto
<1> QED BY <1>5, <1>10, <1>11, <1>12, <1>13 DEF LooksAt

LEMMA StoresRepairs ==
  ASSUME RepairInv, NEW w \in Workers, Stores(w)
  PROVE  WorkInv' /\ Repairs(w)'
<1>1. /\ TypeOK /\ pc \in [Workers -> Labels] /\ WorkInv /\ Repairs(w)
      /\ todo \in [Workers -> SUBSET Matches] /\ later \in [Workers -> SUBSET Matches]
      /\ item \in [Workers -> Records \cup {Torn}] /\ kind \in [Workers -> Kinds]
  BY DEF RepairInv, KeptInv, LakeInv, TypeOK, Labels
<1>2. UNCHANGED <<local, kind, todo, later, item, alone>>
  BY DEF Stores, PutObject, AppendManifest, WriteIndex
<1>3. CASE PutObject(w)
  <2>1. /\ pc[w] = "object" /\ pc' = [pc EXCEPT ![w] = "line"] /\ UNCHANGED <<mem, manifest>>
    BY <1>3 DEF PutObject, At, Goto
  <2>2. WorkInv'
    BY <1>1, <1>2, <2>1 DEF WorkInv, Holds, At
  <2>3. Repairs(w)'
    BY <1>1, <1>2, <2>1
       DEF Repairs, Restored, Acquired, Rebuilt, Sole, Looked, Held, Holds, At, Lines
  <2> QED BY <2>2, <2>3
<1>4. CASE AppendManifest(w)
  <2>1. pc[w] = "line" /\ pc' = [pc EXCEPT ![w] = "work"]
    BY <1>4 DEF AppendManifest, At, Goto
  <2>2. WorkInv'
    BY <1>1, <1>2, <2>1 DEF WorkInv, Holds, At
  <2>3. /\ Holds(w) /\ ~Holds(w)' /\ Looked(w)' = Looked(w) /\ Looked(w) \subseteq Matches
        /\ \A k : Sole(w, k)' => Sole(w, k)
    BY <1>1, <1>2, <2>1 DEF Holds, At, Sole, Looked
  <2>4. \A n \in Matches : mem'[w][n] = IF n = item[w].match THEN item[w].version ELSE mem[w][n]
    BY <1>1, <1>4, MemGrows
  <2>5. item[w].version # None /\ kind[w] # "rebuild"
    BY <1>1, <1>4, <2>3, MemGrows, NamesDiffer DEF WorkInv
  <2>6. Restored(w)'
    BY <1>1, <1>2, <2>3, <2>4 DEF Restored, Repairs, Held
  <2>7. Acquired(w)'
    BY <1>1, <2>3, <2>4, <2>5 DEF Acquired, Repairs, Held
  <2>8. Rebuilt(w)'
    BY <1>2, <2>5 DEF Rebuilt, Sole
  <2> QED BY <2>2, <2>6, <2>7, <2>8 DEF Repairs
<1>5. CASE WriteIndex(w)
  <2>1. pc[w] = "work" /\ pc' = [pc EXCEPT ![w] = "idle"] /\ todo[w] = {} /\ later[w] = {}
    BY <1>5 DEF WriteIndex, At, Goto
  <2>2. WorkInv'
    BY <1>1, <1>2, <2>1 DEF WorkInv, Holds, At
  <2>3. Repairs(w)'
    BY <1>1, <2>1 DEF Repairs, Restored, Acquired, Rebuilt, Sole, At
  <2> QED BY <2>2, <2>3
<1> QED BY <1>3, <1>4, <1>5 DEF Stores

\* The index of a run that was alone to its end is what it repaired.
LEMMA EndSettles ==
  ASSUME RepairInv, NEW w \in Workers, WriteIndex(w)
  PROVE  Settled'
<1>1. /\ TypeOK /\ pc \in [Workers -> Labels] /\ kind[w] \in Kinds
      /\ Repairs(w) /\ OneRunning /\ manifest \in Seq(Records \cup {Torn})
  BY DEF RepairInv, KeptInv, LakeInv, TypeOK, Labels
<1>2. /\ pc[w] = "work" /\ pc' = [pc EXCEPT ![w] = "idle"] /\ todo[w] = {}
      /\ UNCHANGED <<local, manifest>> /\ index' = mem[w]
      /\ last' = IF alone[w] THEN kind[w] ELSE None
  BY DEF WriteIndex, At, Goto
<1>3. SUFFICES ASSUME alone[w] PROVE Running' = {} /\ LakeRepaired'
  BY <1>2 DEF Settled
<1>4. Undisturbed(w) /\ Sole(w, kind[w]) /\ ~Holds(w) /\ \A m : ~Held(w, m)
  BY <1>2, <1>3 DEF Undisturbed, Sole, Holds, Held, At
<1>5. Running' = {}
  <2>1. \A v \in Workers : v # w => pc[v] = "idle"
    BY <1>1, <1>4 DEF OneRunning, At
  <2> QED BY <1>1, <1>2, <2>1 DEF Running, At
<1>6. Looked(w) = {m \in Matches : local[m] \in Versions}
  BY <1>2 DEF Looked
<1>7. /\ last' = "restore" => \A m \in Matches : local[m] \in Versions => mem[w][m] = local[m]
      /\ last' = "acquire" => \A m \in Matches : local[m] \in Versions => mem[w][m] # None
      /\ last' = "rebuild" => \A line \in Lines \ {Torn} : mem[w][line.match] # None
  BY <1>1, <1>2, <1>3, <1>4, <1>6 DEF Repairs, Restored, Acquired, Rebuilt
<1>8. Lines' = Lines
  BY <1>2 DEF Lines
<1> QED BY <1>2, <1>5, <1>7, <1>8 DEF LakeRepaired

LEMMA CrashRepairs ==
  ASSUME RepairInv, NEW w \in Workers, Kill(w) \/ Cut(w)
  PROVE  WorkInv' /\ Repairs(w)'
<1>1. /\ WorkInv /\ pc \in [Workers -> Labels]
      /\ todo \in [Workers -> SUBSET Matches] /\ later \in [Workers -> SUBSET Matches]
  BY DEF RepairInv, KeptInv, LakeInv, TypeOK, Labels
<1>2. /\ pc' = [pc EXCEPT ![w] = "idle"] /\ UNCHANGED kind
      /\ todo' = [todo EXCEPT ![w] = {}] /\ later' = [later EXCEPT ![w] = {}]
  BY DEF Kill, Cut, Ends, Goto
<1>3. WorkInv'
  BY <1>1, <1>2 DEF WorkInv, Holds, At
<1>4. Repairs(w)'
  BY <1>1, <1>2 DEF Repairs, Restored, Acquired, Rebuilt, Sole, At
<1> QED BY <1>3, <1>4

LEMMA RepairStep == RepairInv /\ [Next]_vars => RepairInv'
<1> SUFFICES ASSUME RepairInv, [Next]_vars PROVE RepairInv'
  OBVIOUS
<1>1. KeptInv' /\ TypeOK
  BY KeptStep DEF RepairInv, KeptInv, LakeInv
<1>2. ASSUME NEW w \in Workers, NEW k \in Kinds, Start(w, k) PROVE RepairInv'
  BY <1>1, <1>2, StartRepairs DEF RepairInv
<1>3. ASSUME NEW w \in Workers, ~At(w, "idle"), WorkInv', Repairs(w)',
             alone' = alone, kind' = kind,
             \A u \in Workers : At(u, "idle") => At(u, "idle")',
             last' = last \/ WriteIndex(w)
      PROVE  RepairInv'
  <2>1. ASSUME NEW u \in Workers, u # w PROVE Repairs(u)'
    <3>1. alone'[u] => At(u, "idle")'
      <4> SUFFICES ASSUME alone'[u], ~At(u, "idle") PROVE FALSE
        BY <1>3
      <4>1. Undisturbed(u)
        BY <1>3 DEF Undisturbed
      <4> QED BY <1>3, <2>1, <4>1 DEF RepairInv, KeptInv, OneRunning
    <3> QED BY <3>1 DEF Repairs, Restored, Acquired, Rebuilt, Sole
  <2>2. last = None
    BY <1>3 DEF RepairInv, Settled, Running
  <2>3. Settled'
    BY <1>3, <2>2, EndSettles DEF Settled
  <2> QED BY <1>1, <1>3, <2>1, <2>3 DEF RepairInv
<1>4. CASE ~\E w \in Workers, k \in Kinds : Start(w, k)
  <2>1. \A u \in Workers : At(u, "idle") => At(u, "idle")'
    BY <1>1, <1>4, OtherSteps
  <2>2. ASSUME NEW w \in Workers, NEW m \in Matches, LooksAt(w, m) PROVE RepairInv'
    <3>1. ~At(w, "idle") /\ UNCHANGED <<alone, kind, last>>
      BY <2>2 DEF LooksAt, Looks, SkipPresent, NoLocalFile, CopyLocal, Download, At
    <3> QED BY <1>3, <2>1, <2>2, <3>1, LooksRepairs
  <2>3. ASSUME NEW w \in Workers, Stores(w) PROVE RepairInv'
    <3>1. ~At(w, "idle") /\ UNCHANGED <<alone, kind>> /\ (last' = last \/ WriteIndex(w))
      BY <2>3 DEF Stores, PutObject, AppendManifest, WriteIndex, At
    <3> QED BY <1>3, <2>1, <2>3, <3>1, StoresRepairs
  <2>4. ASSUME NEW w \in Workers, Kill(w) \/ Cut(w) PROVE RepairInv'
    <3>1. ~At(w, "idle") /\ UNCHANGED <<alone, kind, last>>
      BY <2>4 DEF Kill, Cut, At
    <3> QED BY <1>3, <2>1, <2>4, <3>1, CrashRepairs
  <2>5. ASSUME NEW m \in Matches, Update(m) PROVE RepairInv'
    <3>1. /\ \A u \in Workers : ~alone'[u]
          /\ last' = None /\ UNCHANGED <<pc, kind, todo, later>>
      BY <2>5 DEF Update
    <3>2. WorkInv'
      BY <3>1 DEF RepairInv, WorkInv, Holds, At
    <3>3. \A u \in Workers : Repairs(u)'
      BY <3>1 DEF Repairs, Restored, Acquired, Rebuilt, Sole
    <3> QED BY <1>1, <3>1, <3>2, <3>3 DEF RepairInv, Settled
  <2>6. CASE UNCHANGED vars
    <3>1. WorkInv' /\ (\A u \in Workers : Repairs(u)') /\ Settled'
      BY <2>6 DEF RepairInv, vars, lakeVars, workerVars, WorkInv, Holds, At, Repairs, Restored,
                  Acquired, Rebuilt, Sole, Looked, Held, Lines, Settled, Running, LakeRepaired
    <3> QED BY <1>1, <3>1 DEF RepairInv
  <2> QED BY <1>4, <2>2, <2>3, <2>4, <2>5, <2>6 DEF Next
<1> QED BY <1>2, <1>4

\* Recovery: after any history of kills, cuts and overwritten indexes, the run that
\* nothing disturbed leaves an index that has what its scripts promise: every valid local
\* file at its content (restore_international_event_lake.py), an entry for each
\* (acquire_official_international_events.py), an entry for each line that parses
\* (build_international_event_lake_manifest.py).
THEOREM RunRepairs == Spec => []LakeRepaired
<1>1. Init => RepairInv
  <2>1. Init => LakeInv
    <3>1. Init => LinesStored /\ LinesEnd /\ ItemStored /\ MemBacked /\ Backed(index)
      BY DEF Init, LinesStored, LinesEnd, ItemStored, MemBacked, Backed, At
    <3> QED BY <3>1, InitType DEF LakeInv
  <2>2. Init => OneRunning /\ MemCovers
    BY DEF Init, OneRunning, MemCovers, Undisturbed, At
  <2>3. Init => WorkInv
    BY DEF Init, WorkInv, Holds, At
  <2>4. Init => (\A w \in Workers : Repairs(w)) /\ Settled
    BY DEF Init, Repairs, Restored, Acquired, Rebuilt, Sole, At, Settled
  <2> QED BY <2>1, <2>2, <2>3, <2>4 DEF RepairInv, KeptInv
<1>2. RepairInv => LakeRepaired
  BY DEF RepairInv, Settled, LakeRepaired, None
<1> QED BY <1>1, <1>2, RepairStep, PTL DEF Spec

-----------------------------------------------------------------------------
(* The manifest and the objects only grow, and a cut breaks one line.        *)

\* The lines that are lost: those that do not parse, and a whole one without its
\* newline, which the next append will run into.
Broken == {i \in DOMAIN manifest : manifest[i] = Torn \/ (open /\ i = Len(manifest))}

\* A line keeps its place and its record, unless it is broken.
LinesKept == \A i \in DOMAIN manifest :
  /\ i \in DOMAIN manifest'
  /\ manifest'[i] = manifest[i] \/ (i \in Broken /\ manifest'[i] = Torn)

BreaksOneMore ==
  /\ \A i \in DOMAIN manifest' : manifest'[i] = Torn \/ (open' /\ i = Len(manifest'))
                                  => i \in Broken \/ i = Len(manifest) + 1
  /\ Len(manifest) + 1 \notin Broken

LEMMA AppendKeeps ==
  ASSUME TypeOK, NEW line \in Records \cup {Torn}, manifest' = WithLine(line)
  PROVE  /\ LinesKept /\ BreaksOneMore
         /\ open \/ (line # Torn /\ ~open') => Broken' \subseteq Broken
<1> DEFINE S == Records \cup {Torn}
           n == Len(manifest)
<1>1. manifest \in Seq(S) /\ Torn \in S /\ line \in S /\ n \in Nat /\ DOMAIN manifest = 1..n
  BY DEF TypeOK
<1> HIDE DEF S
<1>2. Broken \subseteq 1..n /\ n + 1 \notin Broken
  <2>1. Broken \subseteq 1..n
    BY <1>1, Zenon DEF Broken
  <2>2. n + 1 \notin 1..n
    BY <1>1
  <2> QED BY <2>1, <2>2
<1>3. CASE open
  <2>1. /\ DOMAIN manifest' = 1..n /\ Len(manifest') = n
        /\ \A i \in 1..n : manifest'[i] = IF i = n THEN Torn ELSE manifest[i]
    BY <1>1, <1>3 DEF WithLine
  <2>2. \A i \in 1..n : i = n => i \in Broken
    BY <1>1, <1>3 DEF Broken
  <2>3. ASSUME NEW i \in Broken' PROVE i \in Broken
    <3>1. i \in 1..n /\ (manifest'[i] = Torn \/ i = n)
      BY <2>1, <2>3, Zenon DEF Broken
    <3>2. CASE i = n
      BY <2>2, <3>1, <3>2
    <3>3. CASE i # n
      <4>1. manifest[i] = Torn
        BY <2>1, <3>1, <3>3
      <4> QED BY <1>1, <3>1, <4>1, Zenon DEF Broken
    <3> QED BY <3>2, <3>3
  <2>4. BreaksOneMore
    <3>1. \A i \in 1..n : manifest'[i] = Torn \/ (open' /\ i = n) => i \in Broken'
      BY <2>1, Zenon DEF Broken
    <3> QED BY <1>2, <2>1, <2>3, <3>1 DEF BreaksOneMore
  <2> QED BY <1>1, <1>2, <2>1, <2>2, <2>3, <2>4 DEF LinesKept
<1>4. CASE ~open
  <2>1. /\ DOMAIN manifest' = 1..(n + 1) /\ Len(manifest') = n + 1
        /\ manifest'[n + 1] = line
        /\ \A i \in 1..n : manifest'[i] = manifest[i]
    BY <1>1, <1>4 DEF WithLine
  <2>2. \A i \in 1..n : manifest[i] = Torn => i \in Broken
    BY <1>1 DEF Broken
  <2>3. BreaksOneMore
    BY <1>1, <1>2, <2>1, <2>2 DEF BreaksOneMore
  <2>4. ASSUME line # Torn, ~open', NEW i \in Broken' PROVE i \in Broken
    <3>1. i \in 1..(n + 1) /\ manifest'[i] = Torn
      BY <2>1, <2>4, Zenon DEF Broken
    <3>2. i \in 1..n /\ manifest[i] = Torn
      BY <1>1, <2>1, <2>4, <3>1
    <3> QED BY <2>2, <3>2
  <2> QED BY <1>1, <1>4, <2>1, <2>3, <2>4 DEF LinesKept
<1> QED BY <1>3, <1>4

\* Which steps write the manifest, and that none removes an object or a payload in
\* quarantine.
LEMMA LakeSteps ==
  ASSUME TypeOK, [Next]_vars
  PROVE  /\ objects \subseteq objects' /\ rejected \subseteq rejected'
         /\ \/ UNCHANGED <<manifest, open>>
            \/ \E w \in Workers : AppendManifest(w) \/ Cut(w)
<1>1. CASE \E w \in Workers, k \in Kinds : Start(w, k)
  BY <1>1 DEF Start, lakeVars
<1>2. CASE \E w \in Workers, m \in Matches : LooksAt(w, m)
  BY <1>2 DEF LooksAt, SkipPresent, NoLocalFile, CopyLocal, Download, lakeVars
<1>3. CASE \E w \in Workers : Stores(w)
  BY <1>3 DEF Stores, PutObject, AppendManifest, WriteIndex
<1>4. CASE \E w \in Workers : Kill(w) \/ Cut(w)
  BY <1>4 DEF Kill, Cut, lakeVars
<1>5. CASE (\E m \in Matches : Update(m)) \/ UNCHANGED vars
  BY <1>5 DEF Update, vars, lakeVars
<1> QED BY <1>1, <1>2, <1>3, <1>4, <1>5 DEF Next

\* "recorded in an immutable append-only manifest" (international_event_lake.py:5):
\* runs, overlaps, kills and rebuilds keep every object, every payload in quarantine and
\* every line in its place.  The one line that can change is the last, after an append
\* that was cut: the next one runs into it, and both are lost.
LakeGrows ==
  [][objects \subseteq objects' /\ rejected \subseteq rejected' /\ LinesKept]_vars

\* The append-only lake: no step of any run takes an object, a quarantined payload or
\* a whole line away (international_event_lake.py:246, :329).
THEOREM LakeOnlyGrows == Spec => LakeGrows
<1>1. TypeOK /\ [Next]_vars
        => [objects \subseteq objects' /\ rejected \subseteq rejected' /\ LinesKept]_vars
  <2> SUFFICES ASSUME TypeOK, [Next]_vars
               PROVE  objects \subseteq objects' /\ rejected \subseteq rejected' /\ LinesKept
    OBVIOUS
  <2>1. CASE UNCHANGED <<manifest, open>>
    BY <2>1, LakeSteps DEF LinesKept
  <2>2. ASSUME NEW w \in Workers, AppendManifest(w) \/ Cut(w) PROVE LinesKept
    <3>1. item[w] \in Records /\ \E line \in Records \cup {Torn} : manifest' = WithLine(line)
      BY <2>2 DEF AppendManifest, Cut, TypeOK, At
    <3> QED BY <3>1, AppendKeeps
  <2> QED BY <2>1, <2>2, LakeSteps
<1> QED BY TypeCorrect, <1>1, PTL DEF Spec, LakeGrows

\* Each interrupted append breaks one line of the manifest at most: its own, or the one
\* that is run together with it.
FewBroken == Cardinality(Broken) <= faults["cut"]

BrokenInv == IsFiniteSet(Broken) /\ FewBroken

LEMMA BrokenStep == TypeOK /\ BrokenInv /\ [Next]_vars => BrokenInv'
<1> SUFFICES ASSUME TypeOK, BrokenInv, [Next]_vars PROVE BrokenInv'
  OBVIOUS
<1>0. /\ faults \in [AllFaults -> Nat] /\ "cut" \in AllFaults
      /\ Cardinality(Broken) \in Nat /\ IsFiniteSet(Broken)
      /\ Cardinality(Broken) <= faults["cut"]
  BY FS_CardinalityType DEF TypeOK, AllFaults, BrokenInv, FewBroken
<1>1. ASSUME NEW k, Fault(k)
      PROVE  faults'["cut"] = IF k = "cut" THEN faults["cut"] + 1 ELSE faults["cut"]
  BY <1>0, <1>1, FaultType
<1>2. faults'["cut"] >= faults["cut"] /\ faults'["cut"] \in Nat
  <2>1. faults' = faults \/ \E k : Fault(k)
    <3>1. CASE \E w \in Workers, k \in Kinds : Start(w, k)
      BY <3>1 DEF Start, NoFault, faultVars
    <3>2. CASE \E w \in Workers, m \in Matches : LooksAt(w, m)
      BY <3>2 DEF LooksAt, SkipPresent, NoLocalFile, CopyLocal, Download, faultVars
    <3>3. CASE \E w \in Workers : Stores(w)
      BY <3>3 DEF Stores, PutObject, AppendManifest, WriteIndex, faultVars
    <3>4. CASE \E w \in Workers : Kill(w) \/ Cut(w)
      BY <3>4 DEF Kill, Cut
    <3>5. CASE (\E m \in Matches : Update(m)) \/ UNCHANGED vars
      BY <3>5 DEF Update, vars, faultVars
    <3> QED BY <3>1, <3>2, <3>3, <3>4, <3>5 DEF Next
  <2> QED BY <1>0, <1>1, <2>1
<1>3. ASSUME Broken' \subseteq Broken PROVE BrokenInv'
  <2>1. IsFiniteSet(Broken') /\ Cardinality(Broken') <= Cardinality(Broken)
    BY <1>0, <1>3, FS_Subset
  <2>2. Cardinality(Broken') \in Nat
    BY <2>1, FS_CardinalityType
  <2> QED BY <1>0, <1>2, <2>1, <2>2 DEF BrokenInv, FewBroken
<1>4. CASE UNCHANGED <<manifest, open>>
  BY <1>3, <1>4 DEF Broken
<1>5. ASSUME NEW w \in Workers, AppendManifest(w) PROVE BrokenInv'
  <2>1. item[w] \in Records /\ item[w] # Torn /\ manifest' = WithLine(item[w]) /\ ~open'
    BY <1>5, NamesDiffer DEF AppendManifest, TypeOK, At
  <2>2. Broken' \subseteq Broken
    BY <2>1, AppendKeeps
  <2> QED BY <1>3, <2>2
<1>6. ASSUME NEW w \in Workers, Cut(w) PROVE BrokenInv'
  <2>1. PICK line \in Records \cup {Torn} : manifest' = WithLine(line)
    BY <1>6 DEF Cut, TypeOK, At
  <2> DEFINE n == Len(manifest) + 1
  <2>2. Broken' \subseteq Broken \cup {n} /\ n \notin Broken
    BY <2>1, AppendKeeps DEF BreaksOneMore, Broken
  <2>3. /\ IsFiniteSet(Broken \cup {n})
        /\ Cardinality(Broken \cup {n}) = Cardinality(Broken) + 1
    BY <1>0, <2>2, FS_AddElement
  <2>4. IsFiniteSet(Broken') /\ Cardinality(Broken') <= Cardinality(Broken) + 1
    BY <2>2, <2>3, FS_Subset
  <2>5. Cardinality(Broken') \in Nat
    BY <2>4, FS_CardinalityType
  <2>6. faults'["cut"] = faults["cut"] + 1
    BY <1>1, <1>6 DEF Cut
  <2> QED BY <1>0, <2>4, <2>5, <2>6 DEF BrokenInv, FewBroken
<1> QED BY <1>4, <1>5, <1>6, LakeSteps

\* As many lines at most are broken as appends were interrupted (append_manifest,
\* international_event_lake.py:246), however many runs and overlaps follow.
THEOREM CutsBreakOneLine == Spec => []FewBroken
<1>1. Init => BrokenInv
  <2> SUFFICES ASSUME Init PROVE BrokenInv
    OBVIOUS
  <2>1. Broken = {} /\ faults["cut"] = 0
    BY DEF Init, Broken, AllFaults
  <2> QED BY <2>1, FS_EmptySet DEF BrokenInv, FewBroken
<1>2. BrokenInv => FewBroken
  BY DEF BrokenInv
<1> QED BY TypeCorrect, <1>1, <1>2, BrokenStep, PTL DEF Spec
=============================================================================
