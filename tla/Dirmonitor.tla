---------------------------- MODULE Dirmonitor ----------------------------
(***************************************************************************)
(* The studio's file watcher (studio/src/api/dirmonitor.c) and the scanner *)
(* thread that reads what it reports (studio/data/core/init.lua), on a     *)
(* backend that watches one directory at a time.  Other programs change    *)
(* the directories at any moment; a directory's content is its version.    *)
(***************************************************************************)
EXTENDS Integers, FiniteSets

CONSTANTS
    Dir,          \* the directories of the project
    MaxDirty,     \* DIRMONITOR_MAX_DIRTY
    KernelLimit,  \* watches the kernel grants
    MaxChange     \* changes of each directory

VARIABLES
    disk,       \* each directory's version
    read,       \* the version the file list holds
    watches,    \* mon->watches: the directories watched
    queue,      \* events the kernel holds for a live watch
    pending,    \* the scanner's directories to read again
    overflowed, \* ... or all of them
    exhausted,  \* project.exhausted: the kernel refused a watch
    todo,       \* directories the scanner's current pass still reads
    towatch,    \* ... and then watches
    spc,        \* the scanner: "idle", "refresh", "rebuild", "watch", "poll"
    unseen      \* directories changed while nothing watched them, not read since

dirVars == <<disk, read, watches, queue, pending, overflowed, exhausted, todo, towatch, spc, unseen>>

Init ==
    /\ disk = [d \in Dir |-> 1] /\ read = [d \in Dir |-> 0]
    /\ watches = {} /\ queue = {}
    /\ pending = {} /\ overflowed = FALSE /\ exhausted = FALSE
    /\ todo = Dir /\ towatch = {} /\ spc = "rebuild" /\ unseen = {}

\* Another program changes a directory; a live watch gets an event.
Change(d) ==
    /\ disk[d] < MaxChange
    /\ disk' = [disk EXCEPT ![d] = @ + 1]
    /\ IF d \in watches THEN queue' = queue \cup {d} /\ UNCHANGED unseen
                        ELSE unseen' = unseen \cup {d} /\ UNCHANGED queue
    /\ UNCHANGED <<read, watches, pending, overflowed, exhausted, todo, towatch, spc>>

---------------------------------------------------------------------------
(* monitor:check *)

DirtyAddSilent(due) ==
    {[dirty |-> kept, over |-> FALSE] :
       kept \in {k \in SUBSET due : k = due \/ Cardinality(k) = MaxDirty}}

\* dirty_add for each of the events that are due, in whichever order they come: once per
\* directory, and past the cap only the overflow is kept.
DirtyAdd(due) ==
    IF Cardinality(due) <= MaxDirty THEN {[dirty |-> due, over |-> FALSE]}
    ELSE {[dirty |-> kept, over |-> TRUE] : kept \in {k \in SUBSET due : Cardinality(k) = MaxDirty}}

\* One turn of the loop delivers the events that are due; the set and the overflow go
\* to the scanner and are cleared.
Check ==
    /\ spc = "idle"
    /\ \E due \in SUBSET queue :
         /\ due # {}
         /\ queue' = queue \ due
         /\ \E found \in DirtyAdd(due) :
              pending' = pending \cup found.dirty /\ overflowed' = (overflowed \/ found.over)
    /\ UNCHANGED <<disk, read, watches, exhausted, todo, towatch, spc, unseen>>

---------------------------------------------------------------------------
(* The scanner *)

\* The burst has settled: every pending directory is read, or the project anew.  A
\* rebuild first drops every watch, and the events they had not delivered.
Settle ==
    /\ spc = "idle" /\ (pending # {} \/ overflowed)
    /\ IF overflowed
       THEN /\ spc' = "rebuild" /\ todo' = Dir
            /\ watches' = {} /\ queue' = {} /\ exhausted' = FALSE
            /\ unseen' = unseen \cup queue
       ELSE /\ spc' = "refresh" /\ todo' = pending
            /\ UNCHANGED <<watches, queue, exhausted, unseen>>
    /\ UNCHANGED <<disk, read, pending, overflowed, towatch>>

\* A directory is read, in an order that depends on the lengths of the paths and on the
\* table that holds them; after the last one a rebuild goes on to watch, the others have
\* served what was pending.
ReadNext ==
    /\ \E d \in todo : /\ read' = [read EXCEPT ![d] = disk[d]]
                      /\ unseen' = unseen \ {d}
                      /\ todo' = todo \ {d}
    /\ IF todo' # {} THEN UNCHANGED <<spc, towatch, pending, overflowed>>
       ELSE IF spc = "rebuild"
            THEN spc' = "watch" /\ towatch' = Dir /\ UNCHANGED <<pending, overflowed>>
            ELSE /\ spc' = "idle" /\ UNCHANGED towatch
                 /\ IF spc = "refresh" THEN pending' = {} /\ overflowed' = FALSE
                                       ELSE UNCHANGED <<pending, overflowed>>
    /\ UNCHANGED <<disk, watches, queue, exhausted>>

\* monitor:watch, which the kernel may refuse; then no other is asked for.
WatchNext ==
    /\ spc = "watch"
    /\ IF towatch = {} \/ exhausted
       THEN /\ spc' = "idle" /\ towatch' = {} /\ pending' = {} /\ overflowed' = FALSE
            /\ UNCHANGED <<watches, exhausted>>
       ELSE /\ \E d \in towatch :
                 /\ towatch' = towatch \ {d}
                 /\ IF Cardinality(watches) >= KernelLimit
                    THEN exhausted' = TRUE /\ UNCHANGED watches
                    ELSE watches' = watches \cup {d} /\ UNCHANGED exhausted
            /\ UNCHANGED <<spc, pending, overflowed>>
    /\ UNCHANGED <<disk, read, queue, todo, unseen>>

\* The periodic scan, only while some directory has no watch.
Poll ==
    /\ spc = "idle" /\ exhausted
    /\ spc' = "poll" /\ todo' = Dir
    /\ UNCHANGED <<disk, read, watches, queue, pending, overflowed, exhausted, towatch, unseen>>

Scanner == Check \/ Settle \/ ReadNext \/ WatchNext \/ Poll

Next == Scanner \/ \E d \in Dir : Change(d)

Spec == Init /\ [][Next]_dirVars

---------------------------------------------------------------------------
(* Properties *)

\* A directory whose change was seen is read again, or an event, the pending set, the
\* running pass, an overflow or the periodic scan still stands for it: coalescing, the
\* cap and the passes' interruptions lose none.
SeenChangesKept ==
    \A d \in Dir :
        read[d] # disk[d] =>
            \/ d \in queue \cup pending \cup todo \cup unseen
            \/ overflowed \/ spc = "rebuild"
=============================================================================
