-------------------------- MODULE CollectSpectrum --------------------------
(***************************************************************************)
(* collect_spectrum.sh: cron starts a run every minute; a run records with *)
(* airspy_rx, moves what it finds in the day's collection directory to the *)
(* day's processing directory, and computes a spectrum from the recording  *)
(* whose name it finds in the log.  Runs may overlap; they share both      *)
(* directories, the log, the lock file and the device.  All runs are of    *)
(* one day, and a recording is named after the run that makes it.          *)
(***************************************************************************)
EXTENDS Sequences

CONSTANTS Runs,    \* of the script
          NoRun    \* none of them, a value outside Runs

VARIABLES
  pc,         \* of each run
  files,      \* lock files that exist
  device,     \* the run whose airspy_rx has the device
  spylog,     \* the names airspy_rx printed, in order
  place,      \* of each recording
  partial,    \* recordings of which only a part was moved
  wavfile,    \* of each run: the recording it takes for its own
  spectrum    \* of each run: the recording its spectrum was made from

vars == <<pc, files, device, spylog, place, partial, wavfile, spectrum>>

(* What STATUSFILE names.                                                  *)
StatusFile == "airspy_busy"

Init ==
  /\ pc = [r \in Runs |-> "not started"]
  /\ files = {} /\ device = NoRun /\ spylog = <<>>
  /\ place = [r \in Runs |-> "none"] /\ partial = {}
  /\ wavfile = [r \in Runs |-> NoRun] /\ spectrum = [r \in Runs |-> NoRun]

Goto(r, from, to) == pc[r] = from /\ pc' = [pc EXCEPT ![r] = to]

(* Cron, as often as it likes.                                             *)
Start(r) ==
  /\ Goto(r, "not started", "waiting")
  /\ UNCHANGED <<files, device, spylog, place, partial, wavfile, spectrum>>

(* The test for the lock, which lacks the $ of the variable: it asks for a *)
(* file STATUSFILE in the current directory.                               *)
Busy == "STATUSFILE" \in files

(* The loop does nothing but log while the test is true.                   *)
StopWaiting(r) ==
  /\ ~Busy
  /\ Goto(r, "waiting", "collecting")
  /\ UNCHANGED <<files, device, spylog, place, partial, wavfile, spectrum>>

Lock(r) ==
  /\ Goto(r, "collecting", "locked")
  /\ files' = files \union {StatusFile}
  /\ UNCHANGED <<device, spylog, place, partial, wavfile, spectrum>>

(* airspy_rx prints the name of its file before it opens the device, which *)
(* fails when another process has it, and creates the file afterwards.     *)
AirspyRx(r) ==
  /\ spylog' = Append(spylog, r)
  /\ \/ /\ device = NoRun
        /\ Goto(r, "locked", "recording")
        /\ device' = r /\ place' = [place EXCEPT ![r] = "collect"]
     \/ /\ Goto(r, "locked", "recorded")
        /\ UNCHANGED <<device, place>>
  /\ UNCHANGED <<files, partial, wavfile, spectrum>>

(* It ends, whatever its exit status.                                      *)
AirspyRxEnds(r) ==
  /\ Goto(r, "recording", "recorded")
  /\ device' = NoRun
  /\ UNCHANGED <<files, spylog, place, partial, wavfile, spectrum>>

Unlock(r) ==
  /\ Goto(r, "recorded", "unlocked")
  /\ files' = files \ {StatusFile}
  /\ UNCHANGED <<device, spylog, place, partial, wavfile, spectrum>>

(* find ... -exec mv takes every file in the directory, into another file  *)
(* system: of one that is still written it copies what there is.           *)
Move(r) ==
  /\ Goto(r, "unlocked", "moved")
  /\ LET found == {x \in Runs : place[x] = "collect"}
     IN /\ place' = [x \in Runs |-> IF x \in found THEN "process" ELSE place[x]]
        /\ partial' = partial \union (found \intersect {device})
  /\ UNCHANGED <<files, device, spylog, wavfile, spectrum>>

(* The last name in the log.                                               *)
FindName(r) ==
  /\ Goto(r, "moved", "named")
  /\ wavfile' = [wavfile EXCEPT ![r] = spylog[Len(spylog)]]
  /\ UNCHANGED <<files, device, spylog, place, partial, spectrum>>

(* A spectrum that is not empty is kept and its recording removed; an      *)
(* empty one is an error and the recording, if any, stays.                 *)
Analyse(r) ==
  /\ Goto(r, "named", "finished")
  /\ \/ /\ place[wavfile[r]] = "process"
        /\ spectrum' = [spectrum EXCEPT ![r] = wavfile[r]]
        /\ place' = [place EXCEPT ![wavfile[r]] = "removed"]
     \/ UNCHANGED <<spectrum, place>>
  /\ UNCHANGED <<files, device, spylog, partial, wavfile>>

(* The trap for signals removes the lock, whoever's it is, and exits; bash *)
(* runs it when the command in the foreground has ended.                   *)
Cleanup(r) ==
  /\ pc[r] \in {"waiting", "collecting", "locked", "recorded", "unlocked",
                "moved", "named"}
  /\ pc' = [pc EXCEPT ![r] = "finished"]
  /\ files' = files \ {StatusFile}
  /\ UNCHANGED <<device, spylog, place, partial, wavfile, spectrum>>

Next ==
  \E r \in Runs :
    \/ Start(r) \/ StopWaiting(r) \/ Lock(r) \/ AirspyRx(r) \/ AirspyRxEnds(r)
    \/ Unlock(r) \/ Move(r) \/ FindName(r) \/ Analyse(r) \/ Cleanup(r)

Spec == Init /\ [][Next]_vars

-----------------------------------------------------------------------------
(* Properties.                                                             *)

(* "Airspy is busy, sleeping": a run that finds another one's lock, and    *)
(* that one still recording, waits.                                        *)
BusyMeansWaiting ==
  [][\A r \in Runs :
       (pc[r] = "waiting" /\ device # NoRun /\ StatusFile \in files)
         => pc'[r] \in {"waiting", "finished"}]_vars
=============================================================================
