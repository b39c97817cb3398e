----------------------------- MODULE AtomicFile -----------------------------
(***************************************************************************)
(* How GitTurtle replaces a file of its own (preferences.rs: atomic_write  *)
(* and write_through_temporary).  A writer reserves a temporary name beside *)
(* the file, writes and syncs it, renames it over the file and syncs the    *)
(* folder as well as it can.  Every store of the program lies in one folder *)
(* and is written this way by several threads of one program, which share   *)
(* the counter the temporary names are made from.  The names also carry the *)
(* process number, which a later program may get again: it then meets the   *)
(* temporaries that a stopped program left.  A step may fail, the program   *)
(* may be killed and the machine may lose its power between any two steps.  *)
(***************************************************************************)
EXTENDS Naturals

CONSTANTS Writers,    \* threads that replace files
          Paths,      \* the files
          Contents,   \* what is written
          Tries,      \* names one writer tries, 32 in the code
          MaxNames,   \* bound of the checks: temporary names a program makes
          MaxStops    \* bound of the checks: stops of the program

AtomicFileAssumption ==
    /\ Tries \in Nat \ {0} /\ MaxNames \in Nat /\ MaxStops \in Nat
    /\ Paths # {}

None == "none"    \* no file, or nothing written
Torn == "torn"    \* an incomplete file
ContentsAssumption == None \notin Contents /\ Torn \notin Contents

Names == 0 .. MaxNames - 1
NoName == MaxNames

VARIABLES
    file,      \* Paths -> what a reader finds
    survives,  \* Paths -> what may be found after a loss of power
    temps,     \* Names -> None, or what the temporary holds
    sequence,  \* TEMP_SEQUENCE
    writer,    \* the call each writer is in
    stops      \* how often the program was stopped

vars == <<file, survives, temps, sequence, writer, stops>>

Steps == {"idle", "reserve", "write", "sync", "rename", "folder"}

Idle == [step |-> "idle", path |-> CHOOSE p \in Paths : TRUE, text |-> None,
         name |-> NoName, tries |-> 0, synced |-> FALSE]

TypeOK ==
    /\ file \in [Paths -> Contents \cup {None, Torn}]
    /\ survives \in [Paths -> SUBSET (Contents \cup {None, Torn})]
    /\ temps \in [Names -> Contents \cup {None, Torn}]
    /\ sequence \in 0 .. MaxNames
    /\ writer \in [Writers ->
            [step : Steps, path : Paths, text : Contents \cup {None},
             name : Names \cup {NoName}, tries : 0 .. Tries, synced : BOOLEAN]]
    /\ stops \in 0 .. MaxStops

Init ==
    /\ file = [p \in Paths |-> None]
    /\ survives = [p \in Paths |-> {None}]
    /\ temps = [n \in Names |-> None]
    /\ sequence = 0
    /\ writer = [w \in Writers |-> Idle]
    /\ stops = 0

Set(w, call) == writer' = [writer EXCEPT ![w] = call]
At(w, step) == writer[w].step = step

----------------------------------------------------------------------------
(* atomic_write: two stores are never written to one path at a time, their *)
(* executors see to that.                                                  *)
Begin(w, p, v) ==
    /\ At(w, "idle")
    /\ \A x \in Writers : At(x, "idle") \/ writer[x].path # p
    /\ Set(w, [Idle EXCEPT !.step = "reserve", !.path = p, !.text = v])
    /\ UNCHANGED <<file, survives, temps, sequence, stops>>

(* fetch_add and create_new: the name is new to this program, and one that *)
(* an earlier program left is passed over.                                 *)
Reserve(w) ==
    /\ At(w, "reserve") /\ sequence < MaxNames
    /\ sequence' = sequence + 1
    /\ IF temps[sequence] = None
       THEN /\ temps' = [temps EXCEPT ![sequence] = Torn]
            /\ Set(w, [writer[w] EXCEPT !.step = "write", !.name = sequence])
       ELSE /\ Set(w, IF writer[w].tries + 1 = Tries THEN Idle
                      ELSE [writer[w] EXCEPT !.tries = @ + 1])
            /\ UNCHANGED temps
    /\ UNCHANGED <<file, survives, stops>>

Write(w) ==
    /\ At(w, "write")
    /\ temps' = [temps EXCEPT ![writer[w].name] = writer[w].text]
    /\ Set(w, [writer[w] EXCEPT !.step = "sync"])
    /\ UNCHANGED <<file, survives, sequence, stops>>

\* Mutant: sync_all is dropped.
SyncNot(w) ==
    /\ At(w, "sync")
    /\ Set(w, [writer[w] EXCEPT !.step = "rename"])
    /\ UNCHANGED <<file, survives, temps, sequence, stops>>

Sync(w) ==
    /\ At(w, "sync")
    /\ Set(w, [writer[w] EXCEPT !.step = "rename", !.synced = TRUE])
    /\ UNCHANGED <<file, survives, temps, sequence, stops>>

(* The rename may reach the disk before the folder is synced, or not.      *)
Rename(w) ==
    LET call == writer[w]
        text == temps[call.name]
    IN  /\ At(w, "rename")
        /\ file' = [file EXCEPT ![call.path] = text]
        /\ survives' = [survives EXCEPT ![call.path] =
                            @ \cup {IF call.synced THEN text ELSE Torn}]
        /\ temps' = [temps EXCEPT ![call.name] = None]
        /\ Set(w, [call EXCEPT !.step = "folder"])
        /\ UNCHANGED <<sequence, stops>>

(* The folder is synced, or cannot be; the call succeeds in both cases.    *)
(* Then PendingFile is dropped: it removes its name, which is gone.        *)
SyncFolder(w) ==
    /\ At(w, "folder")
    /\ \/ survives' = [p \in Paths |-> {file[p]}]
       \/ UNCHANGED survives
    /\ temps' = [temps EXCEPT ![writer[w].name] = None]
    /\ Set(w, Idle)
    /\ UNCHANGED <<file, sequence, stops>>

(* Creating, writing, syncing or renaming fails: PendingFile is dropped.   *)
Fail(w) ==
    /\ writer[w].step \in {"reserve", "write", "sync", "rename"}
    /\ temps' = [n \in Names |-> IF n = writer[w].name THEN None ELSE temps[n]]
    /\ Set(w, Idle)
    /\ UNCHANGED <<file, survives, sequence, stops>>

(* The program is killed; the next one may get its process number again.   *)
Kill ==
    /\ stops < MaxStops
    /\ writer' = [w \in Writers |-> Idle]
    /\ sequence' = 0
    /\ stops' = stops + 1
    /\ UNCHANGED <<file, survives, temps>>

(* Power is lost: of each file one of the survivors is found, and of each  *)
(* temporary what had been synced, or less.                                *)
LosePower ==
    /\ stops < MaxStops
    /\ file' \in [Paths -> UNION {survives[p] : p \in Paths}]
    /\ \A p \in Paths : file'[p] \in survives[p]
    /\ survives' = [p \in Paths |-> {file'[p]}]
    /\ \E lost \in SUBSET Names :
           temps' = [n \in Names |-> IF n \in lost /\ temps[n] # None THEN Torn ELSE temps[n]]
    /\ writer' = [w \in Writers |-> Idle]
    /\ sequence' = 0
    /\ stops' = stops + 1

Next ==
    \/ \E w \in Writers :
        \/ \E p \in Paths, v \in Contents : Begin(w, p, v)
        \/ Reserve(w) \/ Write(w) \/ Sync(w) \/ Rename(w) \/ SyncFolder(w) \/ Fail(w)
    \/ Kill \/ LosePower

Spec == Init /\ [][Next]_vars

----------------------------------------------------------------------------
(***************************************************************************)
(* A reader finds the previous file or the whole new one (preferences.rs   *)
(* 1033), after a stop and after a loss of power too.                      *)
(***************************************************************************)
FilesAreWhole ==
    \A p \in Paths : file[p] # Torn /\ Torn \notin survives[p]

(***************************************************************************)
(* The temporary a writer fills is its own: no two writers, of this        *)
(* program or left by an earlier one, share a name, so none publishes what *)
(* another wrote and none removes another's temporary.                     *)
(***************************************************************************)
TemporaryIsOwn ==
    \A w \in Writers : writer[w].step \in {"write", "sync", "rename"} =>
        /\ temps[writer[w].name] =
               IF At(w, "write") THEN Torn ELSE writer[w].text
        /\ \A x \in Writers \ {w} : writer[x].name # writer[w].name

(***************************************************************************)
(* A failed save leaves no temporary: while no program was stopped, every  *)
(* temporary belongs to a writer that is still at work (PendingFile).      *)
(***************************************************************************)
NoLitter ==
    stops = 0 =>
        \A n \in Names : temps[n] # None =>
            \E w \in Writers : writer[w].name = n /\ ~At(w, "folder")

(***************************************************************************)
(* A save is whole or nothing, for readers, for other writers and for the   *)
(* folder it is made in.                                                    *)
(***************************************************************************)
SavesAreWhole == FilesAreWhole /\ TemporaryIsOwn /\ NoLitter

ChangedBySave ==
    \A p \in Paths : file'[p] # file[p] =>
          \/ \E w \in Writers : At(w, "rename") /\ writer[w].path = p
                                /\ file'[p] = writer[w].text
          \/ stops' > stops /\ file'[p] \in survives[p]

(***************************************************************************)
(* What a reader finds changes only to what a save of that file was given, *)
(* or goes back, after a loss of power, to a whole file it held before.    *)
(***************************************************************************)
ChangesAreSaves == [][ChangedBySave]_vars
=============================================================================
