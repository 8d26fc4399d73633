---------------------------- MODULE ControlGroup ----------------------------
(***************************************************************************)
(* How the program learns the CPU limits of its own control group          *)
(* (pkg/cgroup), shows them as gauges (cmd/shaper/cgroup_inspection.go)    *)
(* and on /healthz (pkg/http/status).  Files are read one after the other  *)
(* while the runtime may take their controllers away.  Texts are abstract: *)
(* a line or a field is blank, of one kind or another, or a number.        *)
(***************************************************************************)
EXTENDS Integers, Sequences

CONSTANTS
  Lines,    \* what a line of /proc/self/cgroup may be
  MaxLines,
  Paths,    \* paths a line may carry
  Numbers,  \* numbers a file may hold, zero among them
  MaxWords  \* a bound on the words a file holds

ASSUME ControlGroupAssumption ==
  /\ Lines \subseteq [parts : 1 .. 3, controllers : {"blank", "named"}, path : {"blank"} \union Paths]
  /\ "blank" \notin Paths
  /\ MaxLines \in Nat /\ MaxWords \in Nat
  /\ Numbers \subseteq Nat

NaN == -1    \* a text that is no unsigned number
Max == -2    \* the text "max", in upper or lower case

VARIABLES
  proc,        \* whether /proc/self/cgroup opens, and the lines that can be read from it
  weightFile,  \* the words of cpu.weight, if it is there
  maxFile,     \* the words of cpu.max, if it is there
  at,          \* the line the scanner stands on
  stage,
  cpu,         \* cgroup.CPU
  gauges,      \* the four cgroup gauges
  health       \* the cgroup block of /healthz

inspection == <<proc, weightFile, maxFile, at, stage, cpu, gauges, health>>

Missing == [present |-> FALSE, fields |-> <<>>]
File(fields) == [present |-> TRUE, fields |-> fields]

Words == {NaN, Max} \union Numbers
Contents == UNION {[1 .. n -> Words] : n \in 0 .. MaxWords}

NotRead == [path |-> "blank", weight |-> [value |-> 0, err |-> TRUE],
            max |-> [quota |-> 0, period |-> 0, unlimited |-> FALSE, err |-> TRUE]]

InspectInit ==
  /\ proc \in [readable : BOOLEAN,
               lines : UNION {[1 .. n -> Lines] : n \in 0 .. MaxLines}]
  /\ weightFile \in {Missing} \union {File(f) : f \in Contents}
  /\ maxFile \in {Missing} \union {File(f) : f \in Contents}
  /\ at = 1 /\ stage = "open"
  /\ cpu = NotRead
  /\ gauges = [weight |-> 0, quota |-> 0, period |-> 0, unlimited |-> 0]
  /\ health = [present |-> FALSE, path |-> "blank", weight |-> NotRead.weight,
               max |-> NotRead.max]

-----------------------------------------------------------------------------
\* Mutated form: a line of a version 1 hierarchy counts as well.
MutIsUnified(line) == line.parts = 3 /\ line.path # "blank"

\* readSelfCgroup: the line of the unified hierarchy names no controllers.
IsUnified(line) ==
  line.parts = 3 /\ line.controllers = "blank" /\ line.path # "blank"

Open ==
  /\ stage = "open"
  /\ stage' = IF proc.readable THEN "scan" ELSE "failed"
  /\ UNCHANGED <<proc, weightFile, maxFile, at, cpu, gauges, health>>

\* One line of the scan; at the end there is no path, whatever the reason.
Scan ==
  /\ stage = "scan"
  /\ IF at > Len(proc.lines) THEN stage' = "failed" /\ UNCHANGED <<at, cpu>>
     ELSE IF IsUnified(proc.lines[at])
     THEN /\ cpu' = [cpu EXCEPT !.path = proc.lines[at].path]
          /\ stage' = "weight" /\ UNCHANGED at
     ELSE at' = at + 1 /\ UNCHANGED <<stage, cpu>>
  /\ UNCHANGED <<proc, weightFile, maxFile, gauges, health>>

\* Mutated form: a single field is taken for the weight, whatever it says.
MutWeight(file) ==
  IF file.present /\ Len(file.fields) = 1
  THEN [value |-> file.fields[1], err |-> FALSE]
  ELSE NotRead.weight

\* readWeight: one number, zero included, or an error.
Weight(file) ==
  IF file.present /\ Len(file.fields) = 1 /\ file.fields[1] >= 0
  THEN [value |-> file.fields[1], err |-> FALSE]
  ELSE NotRead.weight

\* Mutated form: a quota that is no number is taken for no limit.
MutLimit(file) ==
  IF ~file.present \/ Len(file.fields) # 2 \/ file.fields[2] < 0 THEN NotRead.max
  ELSE IF file.fields[1] < 0
  THEN [quota |-> 0, period |-> file.fields[2], unlimited |-> TRUE, err |-> FALSE]
  ELSE [quota |-> file.fields[1], period |-> file.fields[2], unlimited |-> FALSE, err |-> FALSE]

\* readMax: a period, and a quota or "max"; newMaxError otherwise.  Zero is a
\* number like any other.
Limit(file) ==
  IF ~file.present \/ Len(file.fields) # 2 \/ file.fields[2] < 0 THEN NotRead.max
  ELSE IF file.fields[1] = Max
  THEN [quota |-> 0, period |-> file.fields[2], unlimited |-> TRUE, err |-> FALSE]
  ELSE IF file.fields[1] < 0 THEN NotRead.max
  ELSE [quota |-> file.fields[1], period |-> file.fields[2], unlimited |-> FALSE, err |-> FALSE]

ReadWeight ==
  /\ stage = "weight" /\ stage' = "max"
  /\ cpu' = [cpu EXCEPT !.weight = Weight(weightFile)]
  /\ UNCHANGED <<proc, weightFile, maxFile, at, gauges, health>>

\* Mutated form: an unreadable limit loses the weight too.
MutReadMax ==
  /\ stage = "max"
  /\ cpu' = [cpu EXCEPT !.max = Limit(maxFile)]
  /\ stage' = IF cpu'.max.err THEN "failed" ELSE "report"
  /\ UNCHANGED <<proc, weightFile, maxFile, at, gauges, health>>

\* Detect keeps the weight when the limit cannot be read, and the reverse.
ReadMax ==
  /\ stage = "max" /\ stage' = "report"
  /\ cpu' = [cpu EXCEPT !.max = Limit(maxFile)]
  /\ UNCHANGED <<proc, weightFile, maxFile, at, gauges, health>>

\* Mutated form: a limit that is an error is shown as unlimited.
MutGauged(info) ==
  [weight |-> info.weight.value, quota |-> info.max.quota, period |-> info.max.period,
   unlimited |-> IF info.max.quota = 0 THEN 1 ELSE 0]

\* Exporter.SetCgroupCPUWeight and SetCgroupCPUMax.
Exported(weight, quota, period, unlimited) ==
  [weight |-> weight, quota |-> IF unlimited THEN 0 ELSE quota, period |-> period,
   unlimited |-> IF unlimited THEN 1 ELSE 0]

\* recordCgroupMetrics; what could not be read is zero.
Gauged(info) ==
  Exported(IF info.weight.err THEN 0 ELSE info.weight.value,
           IF info.max.err THEN 0 ELSE info.max.quota,
           IF info.max.err THEN 0 ELSE info.max.period,
           ~info.max.err /\ info.max.unlimited)

\* buildCgroupSnapshot.  The quota of an unlimited group, left out there, is zero.
Shown(info) ==
  [present |-> TRUE, path |-> info.path, weight |-> info.weight, max |-> info.max]

\* detectAndReportCgroup: nothing to show if no path was found.
Report ==
  /\ stage = "report" /\ stage' = "done"
  /\ gauges' = Gauged(cpu) /\ health' = Shown(cpu)
  /\ UNCHANGED <<proc, weightFile, maxFile, at, cpu>>

ReportNothing ==
  /\ stage = "failed" /\ stage' = "done"
  /\ gauges' = Exported(0, 0, 0, FALSE)
  /\ UNCHANGED <<proc, weightFile, maxFile, at, cpu, health>>

\* The runtime moves the process or takes the controller away.
Withdraw ==
  /\ stage \notin {"open", "done"}
  /\ \/ weightFile.present /\ weightFile' = Missing /\ UNCHANGED maxFile
     \/ maxFile.present /\ maxFile' = Missing /\ UNCHANGED weightFile
  /\ UNCHANGED <<proc, at, stage, cpu, gauges, health>>

InspectNext ==
  \/ Open \/ Scan \/ ReadWeight \/ ReadMax \/ Report \/ ReportNothing \/ Withdraw

InspectSpec == InspectInit /\ [][InspectNext]_inspection

-----------------------------------------------------------------------------
\* The types: whatever the files hold, only numbers become values.
InspectTypeOK ==
  /\ stage \in {"open", "scan", "weight", "max", "report", "failed", "done"}
  /\ at \in 1 .. MaxLines + 1
  /\ cpu.path \in {"blank"} \union Paths
  /\ \A n \in {cpu.weight.value, cpu.max.quota, cpu.max.period} : n \in {0} \union Numbers

\* The group is the one on the first line of the unified hierarchy, and it is
\* found exactly if there is such a line, whatever other lines surround it and
\* whether or not the rest can be read.
Unified == {i \in 1 .. Len(proc.lines) : IsUnified(proc.lines[i])}

PathIsFirstUnified ==
  /\ stage \in {"weight", "max", "report"} =>
       \E i \in 1 .. Len(proc.lines) :
         /\ proc.lines[i].path = cpu.path /\ proc.lines[i].controllers = "blank"
         /\ \A j \in Unified : i <= j
  /\ stage = "failed" /\ proc.readable => Unified = {}

\* /metrics and /healthz tell the same story: every figure of /healthz is the
\* gauge, a lifted limit is a flag and no quota, and what is unknown there is
\* zero here.  The converse does not hold: a zero on /metrics may also have been
\* read, and only /healthz tells which.
GaugesTellHealth ==
  LET known(info) == health.present /\ ~info.err
  IN  stage = "done" =>
        /\ gauges.weight = IF known(health.weight) THEN health.weight.value ELSE 0
        /\ gauges.quota = IF known(health.max) THEN health.max.quota ELSE 0
        /\ gauges.period = IF known(health.max) THEN health.max.period ELSE 0
        /\ gauges.unlimited = 1 <=> known(health.max) /\ health.max.unlimited

\* A figure stands for all its file held, and an error for a file that was gone
\* or held no such figure; so no text but the word "max" lifts a limit, and a
\* zero that was read is no error.  Files are only ever withdrawn: one that is
\* still there was there when it was read.
WeightRead == stage \in {"max", "report"} \/ (stage = "done" /\ cpu.path # "blank")
LimitRead == stage = "report" \/ (stage = "done" /\ cpu.path # "blank")

ReadAsWritten ==
  /\ WeightRead /\ weightFile.present =>
       IF cpu.weight.err THEN \A n \in Numbers : weightFile.fields # <<n>>
       ELSE weightFile.fields = <<cpu.weight.value>>
  /\ LimitRead /\ maxFile.present =>
       IF cpu.max.err
       THEN \A q \in Numbers \union {Max}, n \in Numbers : maxFile.fields # <<q, n>>
       ELSE maxFile.fields = <<IF cpu.max.unlimited THEN Max ELSE cpu.max.quota, cpu.max.period>>

\* What was read before or after a failure is kept: no path is given up for a
\* file, and no file for the other.
PartialKept ==
  cpu.path # "blank" /\ stage = "done" =>
    health = [present |-> TRUE, path |-> cpu.path, weight |-> cpu.weight, max |-> cpu.max]

\* What is reported of the control group is all that could be read, and no more.
ReportSound ==
  /\ InspectTypeOK /\ PathIsFirstUnified
  /\ GaugesTellHealth /\ ReadAsWritten /\ PartialKept
=============================================================================
