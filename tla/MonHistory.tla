----------------------------- MODULE MonHistory -----------------------------
(***************************************************************************)
(* The history a Monitor keeps of one device (src/lib/monitor/Monitor.cpp, *)
(* MonBase.cpp): for each of the intervals SECONDS[no] a sorted list of    *)
(* rows, every row of level no+1 being the average of rows of level no.    *)
(* Each change of a list is saved by writing a temporary file, removing    *)
(* the old file and renaming the temporary one; after a restart the lists  *)
(* are loaded from the files, and the time the process was down is filled  *)
(* with blank rows.                                                        *)
(*                                                                         *)
(* A row is its time and whether it was measured.  The measured values are *)
(* left out; which rows an average sums up, and by how many it divides,    *)
(* are kept.                                                               *)
(***************************************************************************)
EXTENDS Naturals, Sequences, FiniteSets, Functions, TLC

Seqs == INSTANCE SequencesExt

CONSTANTS
    Levels,      \* the number of intervals in use
    Seconds,     \* the interval of each level, SECONDS
    MaxRows,     \* MAX_ROWS
    Start,       \* the time at which the process is first started
    MaxTime,     \* the last second that is looked at (a bound)
    MaxCrashes,  \* how often the process is killed (a bound)
    MaxFaults    \* how often the file system fails (a bound)

Level == 0 .. Levels - 1

ASSUME HistoryAssumption ==
    /\ Levels \in Nat \ {0} /\ MaxRows \in Nat \ {0}
    /\ Seconds \in [Level -> Nat \ {0}]
    /\ Start \in Nat /\ MaxTime \in Nat
    /\ MaxCrashes \in Nat /\ MaxFaults \in Nat

Idle == Levels                  \* no list is being saved

(* A fragment of an old line that a shorter text left in a file: the       *)
(* number it starts with is only the last digits of an old time.           *)
Frag == [sec |-> 0, kind |-> "fragment"]
Row(s) == [sec |-> s, kind |-> "measured"]
BlankRow(s) == [sec |-> s, kind |-> "blank"]
Rows == [sec : 0 .. MaxTime + Seconds[Levels - 1],
         kind : {"measured", "blank", "fragment"}]

VARIABLES
    now,      \* the clock, in seconds
    up,       \* the process runs
    past,     \* the last second that was measured
    list,     \* m_aLists of each level, oldest first
    last,     \* m_last of each level is set
    total,    \* m_total: the times summed up so far, {} when it is NULL
    count,    \* m_plus_count
    cur,      \* the level whose list is being saved, or Idle
    step,     \* where saveRawData is
    written,  \* how many rows of it are in the temporary file
    org,      \* the files there are, by level, newest row first
    tmp,      \* the temporary files there are
    crashes, faults,
    \* history:
    ran,      \* when run_s_l last worked on a level since the start, or 0
    handed,   \* when a level last gave its average to the next one, or 0
    divided,  \* the averages since the start: their rows and their divisor
    saved,    \* the rows of each level's last complete save, newest first
    lost,     \* levels whose file was removed and not yet replaced
    failed    \* a save has failed since the start

mem   == <<past, list, last, total, count, cur, step, written>>
disk  == <<org, tmp>>
ghost == <<ran, handed, divided, saved, lost, failed>>
historyvars == <<now, up, mem, disk, crashes, faults, ghost>>

Each(v) == [no \in Level |-> v]

HistoryInit ==
    /\ now = Start /\ up = TRUE /\ past = 0
    /\ list = Each(<<>>) /\ last = Each(FALSE) /\ total = Each({})
    /\ count = Each(0) /\ cur = Idle /\ step = "open" /\ written = 0
    /\ org = <<>> /\ tmp = <<>>
    /\ crashes = 0 /\ faults = 0
    /\ ran = Each(0) /\ handed = Each(0) /\ divided = Each(<<>>)
    /\ saved = Each(<<>>) /\ lost = {} /\ failed = FALSE

-----------------------------------------------------------------------------
(* Monitor::run, run_s and run_s_l.                                        *)

Span(no) == Seconds[no] * MaxRows

(* The levels a measurement gets to: a level works when the one before it  *)
(* has an average to hand over.                                            *)
Reached == {no \in Level :
              \A j \in 1 .. no : last[j - 1] /\ now % Seconds[j] = 0}
Deepest == CHOOSE no \in Reached : \A j \in Reached : j <= no

Before(no) == IF no = 0 THEN Idle ELSE no - 1

Evicted(no) == SelectSeq(list[no], LAMBDA r : r.sec > now - Span(no))

HasNext(no)  == no + 1 \in Level
HandsOver(no) == no \in Reached /\ last[no] /\ HasNext(no)
                   /\ now % Seconds[no + 1] = 0
Sums(no)     == no \in Reached /\ last[no] /\ HasNext(no)
                   /\ now % Seconds[no + 1] # 0

\* Mutant of DropTotal: the sum is kept.
KeepTotal(no, t) == t

(* A level whose call on the next level returned drops its sum.            *)
DropTotal(no, t) == IF no \in Level THEN [t EXCEPT ![no] = {}] ELSE t

PlusCount(no) == count[no] + (IF Sums(no) THEN 1 ELSE 0)

(* Everything run_s_l does in memory before the first list is saved: it    *)
(* descends to the deepest level and saves on its way back.  A level that  *)
(* is reached for the first time only remembers what it was given.         *)
Measure ==
    /\ up /\ cur = Idle
    /\ now % Seconds[0] = 0 /\ past < now
    /\ past' = now
    /\ list' = [no \in Level |->
                  IF no \notin Reached THEN list[no]
                  ELSE IF last[no] THEN Append(Evicted(no), Row(now))
                  ELSE Evicted(no)]
    /\ last' = [no \in Level |-> last[no] \/ no \in Reached]
    /\ LET sums == [no \in Level |->
                      total[no] \union (IF Sums(no) THEN {now} ELSE {})]
           first == ~last[Deepest]
       IN /\ total' = IF first THEN DropTotal(Deepest - 1, sums) ELSE sums
          /\ cur' = IF first THEN Before(Deepest) ELSE Deepest
    /\ count' = [no \in Level |-> PlusCount(no)]
    /\ step' = "open" /\ written' = 0
    /\ ran' = [no \in Level |-> IF no \in Reached THEN now ELSE ran[no]]
    /\ handed' = [no \in Level |-> IF HandsOver(no) THEN now ELSE handed[no]]
    /\ divided' = [no \in Level |->
                     IF HandsOver(no)
                     THEN Append(divided[no], [rows |-> Cardinality(total[no]),
                                               by |-> PlusCount(no)])
                     ELSE divided[no]]
    /\ UNCHANGED <<now, up, disk, crashes, faults, saved, lost, failed>>

-----------------------------------------------------------------------------
(* MonBase::saveRawData.                                                   *)

Saving == up /\ cur # Idle
AsText(no) == Seqs!Reverse(list[no])
FilesWithout(files, no) == Restrict(files, DOMAIN files \ {no})

\* Mutant of OpenTemp: the old file is removed before the new one is written.
RemoveThenOpen ==
    /\ Saving /\ step = "open"
    /\ org' = FilesWithout(org, cur)
    /\ tmp' = tmp @@ cur :> <<>>
    /\ step' = "write" /\ written' = 0
    /\ UNCHANGED <<now, up, past, list, last, total, count, cur,
                   crashes, faults, ghost>>

(* openTempFile creates the file if it is missing; what a temporary file   *)
(* holds already stays (there is no O_TRUNC).                              *)
OpenTemp ==
    /\ Saving /\ step = "open"
    /\ tmp' = tmp @@ cur :> <<>>
    /\ step' = "write" /\ written' = 0
    /\ UNCHANGED <<now, up, past, list, last, total, count, cur, org,
                   crashes, faults, ghost>>

(* The lines below the ones overwritten stay; if the lengths differ, the   *)
(* first of them has lost its beginning.                                   *)
Below(s, n) == SubSeq(s, n + 1, Len(s))
Tails(s, n) == IF Len(s) <= n THEN {<<>>}
               ELSE {Below(s, n), <<Frag>> \o Below(s, n + 1)}

WriteRow ==
    /\ Saving /\ step = "write" /\ written < Len(list[cur])
    /\ \E tail \in Tails(tmp[cur], written + 1) :
         tmp' = [tmp EXCEPT ![cur] =
                   SubSeq(AsText(cur), 1, written + 1) \o tail]
    /\ written' = written + 1
    /\ UNCHANGED <<now, up, past, list, last, total, count, cur, step, org,
                   crashes, faults, ghost>>

(* replaceTempFile: isFile and remove, *)
RemoveOld ==
    /\ Saving /\ step = "write" /\ written = Len(list[cur])
    /\ org' = FilesWithout(org, cur)
    /\ lost' = lost \union {cur}
    /\ step' = "rename"
    /\ UNCHANGED <<now, up, past, list, last, total, count, cur, written, tmp,
                   crashes, faults, ran, handed, divided, saved, failed>>

(* and rename, with which run_s_l returns to the level before.             *)
RenameTemp ==
    /\ Saving /\ step = "rename"
    /\ org' = cur :> tmp[cur] @@ org
    /\ tmp' = FilesWithout(tmp, cur)
    /\ lost' = lost \ {cur}
    /\ saved' = [saved EXCEPT ![cur] = AsText(cur)]
    /\ total' = DropTotal(cur - 1, total)
    /\ cur' = Before(cur)
    /\ step' = "open" /\ written' = 0
    /\ UNCHANGED <<now, up, past, list, last, count, crashes, faults,
                   ran, handed, divided, failed>>

(* A system call fails: every level returns the error to the one before,   *)
(* and run_s only prints it.                                               *)
SaveFails ==
    /\ Saving /\ faults < MaxFaults
    /\ faults' = faults + 1 /\ failed' = TRUE
    /\ cur' = Idle /\ step' = "open" /\ written' = 0
    /\ UNCHANGED <<now, up, past, list, last, total, count, disk, crashes,
                   ran, handed, divided, saved, lost>>

-----------------------------------------------------------------------------
(* Monitor::ready and MonBase::loadRawData.                                *)

RoundedUp(no) == ((now + Seconds[no] - 1) \div Seconds[no]) * Seconds[no]

(* loadData refuses a fragment, which ends the loading, or takes it for a  *)
(* row of long ago.                                                        *)
Readable(text) ==
    LET bad == {i \in DOMAIN text : text[i] = Frag}
        i   == CHOOSE i \in bad : \A j \in bad : i <= j
    IN IF bad = {} THEN {text} ELSE {text, SubSeq(text, 1, i - 1)}

BlanksAfter(no, s) ==
    [k \in 1 .. (RoundedUp(no) - s - 1) \div Seconds[no] |->
        BlankRow(s + k * Seconds[no])]

(* The rows in the order in which they are inserted, cut when the list is  *)
(* longer than MAX_ROWS.                                                   *)
Loaded(no, text) ==
    LET rows  == SelectSeq(text, LAMBDA r : r.sec < RoundedUp(no))
        all   == IF rows = <<>> THEN <<>>
                 ELSE BlanksAfter(no, rows[1].sec) \o rows
        taken == IF Len(all) > MaxRows THEN SubSeq(all, 1, MaxRows + 1) ELSE all
    IN SortSeq(taken, LAMBDA r, q : r.sec < q.sec)

Crash ==
    /\ up /\ crashes < MaxCrashes
    /\ crashes' = crashes + 1
    /\ up' = FALSE
    /\ list' = Each(<<>>) /\ last' = Each(FALSE) /\ total' = Each({})
    /\ count' = Each(0) /\ past' = 0
    /\ cur' = Idle /\ step' = "open" /\ written' = 0
    /\ ran' = Each(0) /\ handed' = Each(0) /\ divided' = Each(<<>>)
    /\ failed' = FALSE
    /\ UNCHANGED <<now, disk, faults, saved, lost>>

Ready ==
    /\ ~up /\ up' = TRUE
    /\ \E text \in [Level -> {<<>>} \union UNION {Readable(org[no]) :
                                                  no \in DOMAIN org}] :
         /\ \A no \in Level : IF no \in DOMAIN org
                              THEN text[no] \in Readable(org[no])
                              ELSE text[no] = <<>>
         /\ list' = [no \in Level |-> Loaded(no, text[no])]
    /\ UNCHANGED <<now, past, last, total, count, cur, step, written, disk,
                   crashes, faults, ghost>>

(* Time passes, also while a list is being saved.                          *)
Clock ==
    /\ now < MaxTime /\ now' = now + 1
    /\ UNCHANGED <<up, mem, disk, crashes, faults, ghost>>

HistoryNext == \/ Measure \/ OpenTemp \/ WriteRow \/ RemoveOld \/ RenameTemp
        \/ SaveFails \/ Crash \/ Ready \/ Clock

HistorySpec == HistoryInit /\ [][HistoryNext]_historyvars

-----------------------------------------------------------------------------
\* Types.
HistoryTypes ==
    /\ now \in Nat /\ up \in BOOLEAN /\ past \in 0 .. now
    /\ list \in [Level -> Seq(Rows)] /\ last \in [Level -> BOOLEAN]
    /\ total \in [Level -> SUBSET (1 .. now)]
    /\ count \in [Level -> Nat] /\ cur \in Level \union {Idle}
    /\ step \in {"open", "write", "rename"}
    /\ \A f \in {org, tmp} : /\ DOMAIN f \subseteq Level
                             /\ \A no \in DOMAIN f : f[no] \in Seq(Rows)

(* After run_s_l has worked on a level its list holds only times of that   *)
(* level inside the window of MAX_ROWS intervals, each once and in order,  *)
(* so never more than MAX_ROWS rows: blank rows in excess, rows that a     *)
(* failed save left in the temporary file and fragments of lines are gone. *)
(* (More failed saves than MAX_ROWS can leave so many old rows there that  *)
(* a restart loads one second twice; MaxFaults is smaller.)                *)
Window ==
    \A no \in Level : ran[no] > 0 =>
        /\ Len(list[no]) <= MaxRows
        /\ \A i \in DOMAIN list[no] :
              /\ list[no][i].sec \in ran[no] - Span(no) + 1 .. ran[no]
              /\ list[no][i].kind # "fragment"
              /\ i > 1 => list[no][i - 1].sec + Seconds[no] <= list[no][i].sec

(* A row that is counted in the sum of a level was not part of an average  *)
(* handed over before: run_s_l drops the sum once the next level has it.   *)
(* Only when the save of the next level fails does the sum stay, already   *)
(* averaged.                                                               *)
CountedOnce ==
    \A no \in Level :
        up /\ cur = Idle /\ ~failed => \A s \in total[no] : s > handed[no]

(* The first average since the start divides by the number of rows that    *)
(* were summed up.  (m_plus_count is never set back, so later averages     *)
(* divide by the rows of all periods.)                                     *)
FirstAverageExact ==
    \A no \in Level :
        divided[no] # <<>> => divided[no][1].rows = divided[no][1].by

(* What a level hands over to the next is counted once, and the first      *)
(* average is one over exactly the rows that were summed up.               *)
AveragesExact == CountedOnce /\ FirstAverageExact

(* A restart brings back every row of the last complete save that is still *)
(* inside the window, wherever in a save the process was killed or a save  *)
(* had failed, unless that was between the remove and the rename of        *)
(* replaceTempFile: then the file is missing although the temporary one is *)
(* complete.                                                               *)
BroughtBack ==
    \A no \in Level : no \notin lost =>
        \A i \in DOMAIN saved[no] :
           saved[no][i].sec \in RoundedUp(no) - Span(no) + 1 .. RoundedUp(no) - 1
              => \E k \in DOMAIN list'[no] : list'[no][k] = saved[no][i]

(* Every step leaves the rows of a level in its window, and a restart      *)
(* brings them back.                                                       *)
RowsKept == [][/\ HistoryTypes' /\ Window'
               /\ Ready => BroughtBack]_historyvars
=============================================================================
