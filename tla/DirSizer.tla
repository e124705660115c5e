---- MODULE DirSizer ----
(***************************************************************************)
(* internal/daemon/storage_dir.go: the size of the storage directory, as   *)
(* the cycles are told it.  Walking the directory is expensive, so a size  *)
(* is kept for dir_size_check_interval.  A walk fails when a file vanishes *)
(* under it; VictoriaMetrics, whose data lies in the directory by default, *)
(* removes files at any time.                                              *)
(*                                                                         *)
(* Sizes are numbers from 1; 0 is the size of nothing measured.  A walk is *)
(* one step: it returns the size at one instant.                           *)
(***************************************************************************)
EXTENDS Integers

CONSTANTS
    CheckInterval,   \* storage.dir_size_check_interval
    MaxSize          \* bound: the directory grows no larger

ASSUME CheckIntervalAssumption == CheckInterval \in Int \ {0}
ASSUME SizeAssumption == MaxSize \in Nat \ {0}

VARIABLES
    dirSize,      \* the size of the directory
    lastAt,       \* storageDirSizer.lastAt, unmeasured when zero
    lastSize,     \* storageDirSizer.lastSize
    reported,     \* what Size returned last
    walkFailed,   \* observer: the last call of Size walked and failed
    lastSeen      \* observer: when the directory last had a size

sizerVars == <<lastAt, lastSize, reported, walkFailed>>
dirVars == <<dirSize, lastSeen>>

Unmeasured == -1
Sizes == 1 .. MaxSize

DirInit ==
    /\ dirSize = 1
    /\ lastSeen = [s \in Sizes |-> Unmeasured]
    /\ lastAt = Unmeasured
    /\ lastSize = 0
    /\ reported = 0
    /\ walkFailed = FALSE

\* newStorageDirSizer.
NewSizer ==
    /\ lastAt' = Unmeasured
    /\ lastSize' = 0
    /\ reported' = 0
    /\ walkFailed' = FALSE

Cached(at) == lastAt # Unmeasured /\ CheckInterval > 0 /\ at - lastAt < CheckInterval

\* Mutation: a walk that failed counts as a measurement.
SizeStampingFailures(at) ==
    /\ IF Cached(at)
       THEN reported' = lastSize /\ walkFailed' = FALSE /\ UNCHANGED <<lastAt, lastSize>>
       ELSE \/ /\ reported' = dirSize /\ lastSize' = dirSize
               /\ lastAt' = at /\ walkFailed' = FALSE
            \/ /\ reported' = lastSize /\ lastAt' = at
               /\ walkFailed' = TRUE /\ UNCHANGED lastSize
    /\ UNCHANGED dirVars

\* Size(now): `at` is the instant at which the cycle began.  When the walk
\* fails the old size is returned, and the next cycle walks again.
Size(at) ==
    /\ \/ /\ Cached(at)
          /\ reported' = lastSize
          /\ walkFailed' = FALSE
          /\ UNCHANGED <<lastAt, lastSize>>
       \/ /\ ~Cached(at)
          /\ reported' = dirSize
          /\ lastSize' = dirSize
          /\ lastAt' = at
          /\ walkFailed' = FALSE
       \/ /\ ~Cached(at)
          /\ reported' = lastSize
          /\ walkFailed' = TRUE
          /\ UNCHANGED <<lastAt, lastSize>>
    /\ UNCHANGED dirVars

\* The directory gets another size at instant t.
Resize(size, t) ==
    /\ dirSize' = size
    /\ lastSeen' = IF size = dirSize THEN lastSeen ELSE [lastSeen EXCEPT ![dirSize] = t]

\* History and time series grow.
Grow(t) ==
    /\ dirSize < MaxSize
    /\ Resize(dirSize + 1, t)
    /\ UNCHANGED sizerVars

\* CleanHistory removes what has expired, if anything has.
Clean(t) == \E size \in 1 .. dirSize : Resize(size, t)

====
