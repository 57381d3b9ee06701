--------------------------- MODULE RecentlyFiles ---------------------------
(***************************************************************************)
(* RecentlyFiles (lib/io/RecentlyFiles.cpp): the files used lately, found  *)
(* by name in m_aNames and ordered by time in m_aTimes, both ArraySorted.  *)
(* The two share one Time object per file, whose time is the sort key of   *)
(* m_aTimes, so a change of the time has to move the object.  Many files   *)
(* may have the same time: index() then answers any of their positions,    *)
(* and the right one is looked for downwards from there and then upwards.  *)
(*                                                                         *)
(* When the second insert of add() finds no memory, the first one is       *)
(* undone with m_aNames.remove(sName): a String is taken for a Name, what  *)
(* it is compared by lies outside of it, and the search may end anywhere.  *)
(* A Time object may so be left in m_aTimes without a name, or a name with *)
(* a Time object that is not in m_aTimes.                                  *)
(*                                                                         *)
(* Every operation holds the lock of the object from its first line to its *)
(* last and is one step.  ArraySorted is taken as module ArraySorted shows *)
(* it to be: index() answers a position with the key if there is one, and  *)
(* insert() puts an element at a place that keeps the array sorted.        *)
(***************************************************************************)
EXTENDS Integers, Sequences, SequencesExt

CONSTANTS
    Files, Times, NoFile,
    MaxTimes      \* bound: how long m_aTimes may grow

VARIABLES
    m_aNames,   \* m_aNames[f]: the time in the Time object of the name f
    m_aTimes,   \* the Time objects in their order; own: that of its file's name
    torn,       \* history: the files an undo has left in one array only
    missed      \* the file whose object the last call did not find, or NoFile

vars == <<m_aNames, m_aTimes, torn, missed>>

Names == DOMAIN m_aNames

Time(f, t) == [file |-> f, time |-> t, own |-> TRUE]

Init == m_aNames = <<>> /\ m_aTimes = <<>> /\ torn = {} /\ missed = NoFile

\* index(): the positions it may answer, -1 when the binary search finds none.
Index(t) ==
    LET found == {k \in 0..Len(m_aTimes) - 1 : m_aTimes[k + 1].time = t}
    IN IF found = {} THEN {-1} ELSE found

Matches(k, f, t) == m_aTimes[k + 1].file = f /\ m_aTimes[k + 1].time = t

\* Mutant of Find: only the positions before the one index() answered.
FindDown(i, f, t) ==
    LET down == {k \in 0..i : Matches(k, f, t)}
    IN IF down # {} THEN CHOOSE k \in down : \A j \in down : j <= k ELSE -1

\* The loops of removeTime and updateTime: downwards from i, then upwards.
Find(i, f, t) ==
    LET down == {k \in 0..i : Matches(k, f, t)}
        up == {k \in i + 1..Len(m_aTimes) - 1 : Matches(k, f, t)}
    IN IF down # {} THEN CHOOSE k \in down : \A j \in down : j <= k
       ELSE IF up # {} THEN CHOOSE k \in up : \A j \in up : k <= j
       ELSE -1

\* insert(): the arrays that have e at a place where its key fits.
Inserted(seq, e) ==
    {InsertAt(seq, i, e) : i \in
        {i \in 1..Len(seq) + 1 :
            /\ i > 1 => seq[i - 1].time <= e.time
            /\ i <= Len(seq) => e.time <= seq[i].time}}

\* The names in `gone' are gone: no Time object left in seq is theirs.
Disowned(seq, gone) ==
    [i \in DOMAIN seq |-> [seq[i] EXCEPT !.own = @ /\ seq[i].file \notin gone]]

\* The names f that stay have the times they had, and a new one has t.
Named(S, t) == [f \in S |-> IF f \in Names THEN m_aNames[f] ELSE t]

-----------------------------------------------------------------------------
\* add() of a name that is not listed.
AddNew(f, t) ==
    /\ f \notin Names /\ Len(m_aTimes) < MaxTimes
    /\ m_aNames' = Named(Names \cup {f}, t)
    /\ m_aTimes' \in Inserted(m_aTimes, Time(f, t))
    /\ missed' = NoFile
    /\ UNCHANGED torn

\* add() of a name when the first insert finds no memory: nothing changes.
AddNoMemory(f) ==
    /\ f \notin Names
    /\ missed' = NoFile
    /\ UNCHANGED <<m_aNames, m_aTimes, torn>>

\* The second insert finds none: the undo removes any one name, or none.
AddUndone(f, t, gone) ==
    /\ f \notin Names
    /\ m_aNames' = Named((Names \cup {f}) \ gone, t)
    /\ m_aTimes' = Disowned(m_aTimes, gone)
    /\ torn' = IF gone = {f} THEN torn ELSE torn \cup gone \cup {f}
    /\ missed' = NoFile

\* add() of a listed name: updateTime() takes the object out, changes its
\* time and inserts it again, for which the memory is there.
AddOld(f, t) ==
    /\ f \in Names
    /\ \E i \in Index(m_aNames[f]) :
         LET k == Find(i, f, m_aNames[f])
             moved == m_aTimes[k + 1]
         IN IF i = -1 \/ k = -1
            THEN missed' = f /\ UNCHANGED <<m_aNames, m_aTimes>>
            ELSE /\ m_aNames' = IF moved.own THEN [m_aNames EXCEPT ![f] = t] ELSE m_aNames
                 /\ m_aTimes' \in Inserted(RemoveAt(m_aTimes, k + 1), [moved EXCEPT !.time = t])
                 /\ missed' = NoFile
    /\ UNCHANGED torn

\* remove(): the name goes first, then removeTime() looks for its object.
RemoveFile(f) ==
    /\ f \in Names
    /\ m_aNames' = [g \in Names \ {f} |-> m_aNames[g]]
    /\ \E i \in Index(m_aNames[f]) :
         LET k == Find(i, f, m_aNames[f])
         IN IF i = -1 \/ k = -1
            THEN missed' = f /\ UNCHANGED m_aTimes
            ELSE /\ missed' = NoFile
                 /\ m_aTimes' = Disowned(RemoveAt(m_aTimes, k + 1), {f})
    /\ UNCHANGED torn

Next == \E f \in Files :
          \/ \E t \in Times : \/ AddNew(f, t) \/ AddOld(f, t)
                              \/ \E gone \in SUBSET (Names \cup {f}) :
                                    (\A g, h \in gone : g = h) /\ AddUndone(f, t, gone)
          \/ AddNoMemory(f) \/ RemoveFile(f)

Spec == Init /\ [][Next]_vars

-----------------------------------------------------------------------------
Listed(f) == {i \in DOMAIN m_aTimes : m_aTimes[i].file = f}

\* A file is listed in both arrays, once and with the same Time object, or in
\* neither, whatever times files share; only files that an undo has torn apart
\* are not.
SameFiles ==
    \A f \in Files \ torn :
        IF f \in Names THEN \E i \in Listed(f) : /\ Listed(f) = {i}
                                                 /\ m_aTimes[i] = Time(f, m_aNames[f])
                       ELSE Listed(f) = {}

\* m_aTimes is sorted by the times as they are now, also after an undo, so
\* getTimeNode(0) is the file not used for the longest time; a changed key would
\* also make index() miss elements.
OldestFirst ==
    \A i, j \in DOMAIN m_aTimes : i < j => m_aTimes[i].time <= m_aTimes[j].time

\* add() and remove() of a listed file find its object, unless an undo tore it away.
AlwaysFound == missed # NoFile => missed \in torn
=============================================================================
