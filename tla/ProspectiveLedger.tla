--------------------------- MODULE ProspectiveLedger ---------------------------
(***************************************************************************)
(* The prospective V1.5 collector: a scheduled run of scripts/prospective_ *)
(* collect.py --execute and then scripts/prospective_score.py              *)
(* (run_prospective_collection.ps1, every 15 minutes), and runs started by *)
(* hand beside it ("just re-run the same command",                         *)
(* PROSPECTIVE_COLLECTION_RUNBOOK.md:42).  They share two JSONL files, the *)
(* immutable ledger and the scores, without a lock.                        *)
(*                                                                         *)
(* Time is in minutes.  An append is one step; a kill during it leaves     *)
(* part of a line, or a whole line without its end.  The numbers in a      *)
(* record are left out.                                                    *)
(***************************************************************************)
EXTENDS Integers, Sequences, FiniteSets

CONSTANTS
  Matches,     \* the eligible fixtures of the queue
  Kickoff,     \* [Matches -> Int], kickoff in minutes
  Plan,        \* the windows of all of them in the order of the loop
  GameLength,  \* minutes after kickoff at which results.json says FINISHED
  Interval,    \* minutes between scheduled runs (15 as installed)
  Phases,      \* minutes at which the schedule may have been started
  Horizon,     \* bound: the last minute of the run
  FaultKinds,  \* which of AllFaults can happen
  MaxFaults    \* bound: how many faults happen

AllFaults == {"kill",    \* a run ends; the files are whole
              "cut",     \* a run ends while it appends
              "slow",    \* a run takes a minute more
              "manual",  \* a run is started by hand
              "dry"}     \* a run is started by hand without --execute

\* Minutes from kickoff to the start of each window.
Offset == [w \in {"T-90", "T-15", "m0", "m15", "m30", "HT", "m60", "m75", "m85"} |->
             CASE w = "T-90" -> -90 [] w = "T-15" -> -15 [] w = "m0"  -> 0
               [] w = "m15"  -> 15  [] w = "m30"  -> 30  [] w = "HT"  -> 45
               [] w = "m60"  -> 60  [] w = "m75"  -> 75  [] w = "m85" -> 85]
PreMatch == {"T-90", "T-15"}
Grace == 10

ASSUME ProspectiveBounds ==
  /\ Kickoff \in [Matches -> Int]
  /\ Plan \in Seq([match : Matches, window : DOMAIN Offset])
  /\ GameLength \in Nat /\ Interval \in Nat \ {0} /\ Phases \subseteq Nat
  /\ Horizon \in Nat /\ MaxFaults \in Nat /\ FaultKinds \subseteq AllFaults

Runs == {"task", "hand"}
Keys == {Plan[i] : i \in DOMAIN Plan}

VARIABLES
  now,       \* the clock
  phase,     \* the first minute of the schedule
  pc,        \* where each run is
  started,   \* --now of each run, the moment it started
  execute,   \* --execute of each run
  todo,      \* the windows each run has still to look at, in order
  existing,  \* the ledger keys each run read before its loop
  batch,     \* the records the scorer of each run is about to write scores of
  ledger,    \* the records of ledger.jsonl
  scores,    \* the lines of scores.jsonl
  tail,      \* how each file ends: "whole", "open" (no newline) or "torn"
  manifest,  \* the events logged by the sessions
  faults,    \* how many faults of each kind happened
  left       \* how many more may happen

runVars   == <<pc, started, execute, todo, existing, batch>>
fileVars  == <<ledger, scores, tail, manifest>>
faultVars == <<faults, left>>
vars == <<now, phase, runVars, fileVars, faultVars>>

-----------------------------------------------------------------------------
(* windows.py *)

Target(k) == Kickoff[k.match] + Offset[k.window]

StatusShortGrace(k, t) == IF t < Target(k) THEN "pending"
                          ELSE IF t < Target(k) + Grace THEN "due" ELSE "missed"

Status(k, t) == IF t < Target(k) THEN "pending"
                ELSE IF t <= Target(k) + Grace THEN "due" ELSE "missed"

-----------------------------------------------------------------------------
(* ledger.py *)

RecordedKeys == {r.key : r \in ledger}

\* A line behind one without its newline ends up on the same line.
AfterAppend(t) == IF t = "whole" THEN "whole" ELSE "torn"

Fault(kind) == /\ kind \in FaultKinds /\ left > 0
               /\ left' = left - 1
               /\ faults' = [faults EXCEPT ![kind] = @ + 1]

NoFault == UNCHANGED faultVars

At(p, label)   == pc[p] = label
Goto(p, label) == pc' = [pc EXCEPT ![p] = label]

-----------------------------------------------------------------------------
(* prospective_collect.py *)

Scheduled(t) == t >= phase /\ (t - phase) % Interval = 0

\* The keys are read once, before the loop; keys() raises on a line that is not
\* JSON, and the wrapper goes on to the scorer.
Begin(p, exec) ==
  /\ At(p, "idle")
  /\ started' = [started EXCEPT ![p] = now]
  /\ execute' = [execute EXCEPT ![p] = exec]
  /\ IF exec /\ tail["ledger"] = "torn"
       THEN Goto(p, "score") /\ UNCHANGED <<todo, existing>>
       ELSE /\ Goto(p, "plan")
            /\ todo' = [todo EXCEPT ![p] = Plan]
            /\ existing' = [existing EXCEPT ![p] = IF exec THEN RecordedKeys ELSE {}]
  /\ UNCHANGED <<now, phase, batch, fileVars>>

\* Task Scheduler starts the task when its turn comes, unless it still runs.
StartTask == /\ Scheduled(now) /\ started["task"] < now
             /\ Begin("task", TRUE) /\ NoFault

StartByHand == \/ Fault("manual") /\ Begin("hand", TRUE)
               \/ Fault("dry") /\ Begin("hand", FALSE)

Event(p, name, k) == [event |-> name, key |-> k, execute |-> execute[p]]

\* SessionManifest.log: an event key is written once per session.
Log(p, name, k) == manifest' = manifest \cup {Event(p, name, k)}

Looking(p) == At(p, "plan") /\ todo[p] # <<>>
Current(p) == Head(todo[p])
Advance(p) == todo' = [todo EXCEPT ![p] = Tail(@)]

InStatus(p, status) == Looking(p) /\ Status(Current(p), started[p]) = status

PassWindow(p) ==
  /\ \/ InStatus(p, "pending")
     \/ InStatus(p, "missed") /\ Current(p) \in existing[p]
  /\ Advance(p)
  /\ UNCHANGED <<now, phase, pc, started, execute, existing, batch, fileVars, faultVars>>

MarkMissedAlways(p) ==
  /\ InStatus(p, "missed")
  /\ Advance(p) /\ Log(p, "missed", Current(p))
  /\ UNCHANGED <<now, phase, pc, started, execute, existing, batch, ledger, scores,
                 tail, faultVars>>

MarkMissed(p) ==
  /\ InStatus(p, "missed") /\ Current(p) \notin existing[p]
  /\ Advance(p) /\ Log(p, "missed", Current(p))
  /\ UNCHANGED <<now, phase, pc, started, execute, existing, batch, ledger, scores,
                 tail, faultVars>>

\* Due, but already captured, only planned (dry run), or in play.
LogWindow(p) ==
  /\ InStatus(p, "due") /\ Advance(p)
  /\ IF Current(p) \in existing[p] THEN Log(p, "duplicate", Current(p))
     ELSE IF ~execute[p] THEN Log(p, "planned", Current(p))
     ELSE /\ Current(p).window \notin PreMatch
          /\ Log(p, "inplay_requires_live_source", Current(p))
  /\ UNCHANGED <<now, phase, pc, started, execute, existing, batch, ledger, scores,
                 tail, faultVars>>

Capturing(p) == /\ InStatus(p, "due") /\ Current(p) \notin existing[p] /\ execute[p]
                /\ Current(p).window \in PreMatch

CheckKeyNever(p) ==
  /\ Capturing(p)
  /\ Goto(p, "append")
  /\ UNCHANGED <<now, phase, started, execute, todo, existing, batch, fileVars, faultVars>>

\* ImmutableLedger.record reads all keys again and only then appends.
CheckKey(p) ==
  /\ Capturing(p)
  /\ IF tail["ledger"] = "torn"
       THEN Goto(p, "score") /\ UNCHANGED <<todo, manifest>>
       ELSE IF Current(p) \in RecordedKeys
         THEN Advance(p) /\ Log(p, "captured", Current(p)) /\ UNCHANGED pc
         ELSE Goto(p, "append") /\ UNCHANGED <<todo, manifest>>
  /\ UNCHANGED <<now, phase, started, execute, existing, batch, ledger, scores, tail,
                 faultVars>>

\* at is the --now of the run; filed, the minute of the append, is for the properties.
NewRecord(p) == [key |-> Current(p), at |-> started[p], filed |-> now, by |-> p]

AppendRecord(p) ==
  /\ At(p, "append")
  /\ ledger' = ledger \cup {NewRecord(p)}
  /\ tail' = [tail EXCEPT !["ledger"] = AfterAppend(@)]
  /\ Goto(p, "plan") /\ Advance(p) /\ Log(p, "captured", Current(p))
  /\ UNCHANGED <<now, phase, started, execute, existing, batch, scores, faultVars>>

Shutdown(p) ==
  /\ At(p, "plan") /\ todo[p] = <<>>
  /\ Goto(p, "score")
  /\ UNCHANGED <<now, phase, started, execute, todo, existing, batch, fileVars, faultVars>>

-----------------------------------------------------------------------------
(* prospective_score.py *)

Finished(m) == now >= Kickoff[m] + GameLength

ScoredKeys == {s.record.key : s \in scores}

UnscoredForgetful == {r \in ledger : Finished(r.key.match)}
Unscored == {r \in ledger : Finished(r.key.match) /\ r.key \notin ScoredKeys}

Ends(p) == /\ pc' = [pc EXCEPT ![p] = "idle"]
           /\ todo' = [todo EXCEPT ![p] = <<>>]
           /\ existing' = [existing EXCEPT ![p] = {}]
           /\ batch' = [batch EXCEPT ![p] = {}]

\* Both files are read whole, then the scores are written in one buffer; a line
\* that is not JSON makes the scorer raise, which ends the run.
ReadForScores(p) ==
  /\ At(p, "score")
  /\ IF tail["ledger"] = "torn" \/ tail["scores"] = "torn"
       THEN Ends(p)
       ELSE /\ batch' = [batch EXCEPT ![p] = Unscored]
            /\ Goto(p, "flush") /\ UNCHANGED <<todo, existing>>
  /\ UNCHANGED <<now, phase, started, execute, fileVars, faultVars>>

ScoreLines(p, records) == {[record |-> r, by |-> p, at |-> now] : r \in records}

FlushScores(p) ==
  /\ At(p, "flush") /\ Ends(p)
  /\ scores' = scores \cup ScoreLines(p, batch[p])
  /\ tail' = IF batch[p] = {} THEN tail ELSE [tail EXCEPT !["scores"] = AfterAppend(@)]
  /\ UNCHANGED <<now, phase, started, execute, ledger, manifest, faultVars>>

-----------------------------------------------------------------------------
(* The machine *)

Kill(p) ==
  /\ ~At(p, "idle") /\ Fault("kill") /\ Ends(p)
  /\ UNCHANGED <<now, phase, started, execute, fileVars>>

\* Part of the text is written: whole lines, then a part of the next one ("torn"),
\* or all of it but the newline ("open").
Cut(p) ==
  /\ Fault("cut") /\ Ends(p)
  /\ \/ /\ At(p, "append")
        /\ \/ tail' = [tail EXCEPT !["ledger"] = "torn"] /\ UNCHANGED ledger
           \/ /\ tail' = [tail EXCEPT !["ledger"] = IF @ = "whole" THEN "open" ELSE "torn"]
              /\ ledger' = ledger \cup {NewRecord(p)}
        /\ UNCHANGED scores
     \/ /\ At(p, "flush") /\ batch[p] # {}
        /\ \E written \in SUBSET batch[p], end \in {"open", "torn"} :
             /\ end = "open" => written # {}
             /\ scores' = scores \cup ScoreLines(p, written)
             /\ tail' = [tail EXCEPT !["scores"] = IF @ = "whole" THEN end ELSE "torn"]
        /\ UNCHANGED ledger
  /\ UNCHANGED <<now, phase, started, execute, manifest>>

\* Time passes between runs, or in a slow one, but not inside record().
Minute ==
  /\ now < Horizon /\ \A p \in Runs : ~At(p, "append")
  /\ Scheduled(now) => started["task"] = now \/ ~At("task", "idle")
  /\ IF \E p \in Runs : ~At(p, "idle") THEN Fault("slow") ELSE NoFault
  /\ now' = now + 1
  /\ UNCHANGED <<phase, runVars, fileVars>>

-----------------------------------------------------------------------------
Init ==
  /\ now = 0 /\ phase \in Phases
  /\ pc = [p \in Runs |-> "idle"] /\ started = [p \in Runs |-> -1]
  /\ execute = [p \in Runs |-> FALSE]
  /\ todo = [p \in Runs |-> <<>>]
  /\ existing = [p \in Runs |-> {}] /\ batch = [p \in Runs |-> {}]
  /\ ledger = {} /\ scores = {} /\ manifest = {}
  /\ tail = [f \in {"ledger", "scores"} |-> "whole"]
  /\ faults = [k \in AllFaults |-> 0] /\ left = MaxFaults

Collect(p) == \/ PassWindow(p) \/ MarkMissed(p) \/ LogWindow(p)
              \/ CheckKey(p) \/ AppendRecord(p) \/ Shutdown(p)
Score(p)   == ReadForScores(p) \/ FlushScores(p)

Next == \/ StartTask \/ StartByHand \/ Minute
        \/ \E p \in Runs : Collect(p) \/ Score(p) \/ Kill(p) \/ Cut(p)

Spec == Init /\ [][Next]_vars

-----------------------------------------------------------------------------
(* Properties *)

Record  == [key : Keys, at : Int, filed : Nat, by : Runs]
Endings == {"whole", "open", "torn"}
Names   == {"captured", "missed", "duplicate", "planned", "inplay_requires_live_source"}

\* The types of the variables.
TypeOK ==
  /\ now \in Nat /\ phase \in Nat /\ left \in 0..MaxFaults
  /\ pc \in [Runs -> {"idle", "plan", "append", "score", "flush"}]
  /\ started \in [Runs -> Int] /\ execute \in [Runs -> BOOLEAN]
  /\ todo \in [Runs -> Seq(Keys)] /\ \A p \in Runs : At(p, "append") => todo[p] # <<>>
  /\ existing \in [Runs -> SUBSET Keys] /\ batch \in [Runs -> SUBSET Record]
  /\ ledger \subseteq Record
  /\ scores \subseteq [record : Record, by : Runs, at : Int]
  /\ tail \in [{"ledger", "scores"} -> Endings]
  /\ manifest \subseteq [event : Names, key : Keys, execute : BOOLEAN]
  /\ faults \in [AllFaults -> Nat]

Filed(k) == {r \in ledger : r.key = k}

\* "Immutable, append-only, first-write-wins" (ledger.py:1): a window has one record
\* whatever is killed.  Two runs that call record in the same minute can both find
\* the key absent; in later minutes it stays as first written, however old the keys
\* are that a slow run read before its loop.
FirstWriteWins ==
  \A r, s \in ledger : r.key = s.key =>
    /\ r.filed = s.filed
    /\ r.by = s.by \/ faults["manual"] = 0 => r = s

\* MISSED_UNRECOVERABLE means there is no prediction (session.py:65): a run with
\* --execute marks a window as missed only if nothing is on file, and nothing is
\* filed for it afterwards, unless a slow run overlaps another.
MissedMeansAbsent ==
  faults["manual"] = 0 \/ faults["slow"] = 0 =>
    \A e \in manifest : e.event = "missed" /\ e.execute => Filed(e.key) = {}

\* A pre-match window is open for 10 minutes and the installed schedule looks every
\* 15: while nothing fails, a window is captured exactly if a scheduled start falls
\* in it, and marked as missed as soon as a run comes after it.
OnlySlow == left + faults["slow"] = MaxFaults
Hit(k) == \E t \in Target(k)..Target(k) + Grace : t >= 0 /\ Scheduled(t)
ScheduleDecides ==
  OnlySlow => \A k \in Keys :
    k.window \in PreMatch
    /\ (\A t \in {Target(k) + Grace, phase} : t + Interval + faults["slow"] < now)
      => IF Hit(k) THEN Filed(k) # {}
         ELSE Filed(k) = {} /\ Event("task", "missed", k) \in manifest

\* "A ledger record is scored once" (prospective_score.py:2-3) and only when its
\* match has finished; a second score of a record takes a run by hand.  While
\* nothing fails, each record is scored by the run after the result.
ScoredOnce ==
  /\ \A s \in scores : s.at >= Kickoff[s.record.key.match] + GameLength
  /\ faults["manual"] + faults["dry"] = 0 =>
       \A s, t \in scores : s.record.key = t.record.key => s = t
  /\ OnlySlow => \A r \in ledger :
       Kickoff[r.key.match] + GameLength + Interval + faults["slow"] < now
         => \E s \in scores : s.record = r
=============================================================================
