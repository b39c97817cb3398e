---------------------------- MODULE StoresProofs ----------------------------
(***************************************************************************)
(* Proofs about what is written to disk.  AtomicFile: a file is replaced   *)
(* as a whole or not at all, for any number of writers, files, contents,   *)
(* names and stops.  ActivityLog: no entry claims what Git did not do, for *)
(* any clock, limit, and number of operations and restarts.                *)
(* PreferencesStore: a save of one section keeps the others and is found   *)
(* by the next load, for any earlier file and any sequence of saves.       *)
(* Profiles: what a program saves keeps the others' profiles, and what it  *)
(* publishes was reviewed and is recorded, for any programs and profiles.  *)
(***************************************************************************)
EXTENDS AtomicFile, ActivityLog, PreferencesStore, Profiles, FiniteSetTheorems,
        SequenceTheorems, WellFoundedInduction, TLAPS

-----------------------------------------------------------------------------
(* The files: the inductive invariant.                                    *)

Calls == [step : Steps, path : Paths, text : Contents \cup {None},
          name : Names \cup {NoName}, tries : 0 .. Tries, synced : BOOLEAN]

NamedSteps == {"write", "sync", "rename", "folder"}

\* A call gives up before it runs out of tries.
TriesLeft == \A w \in Writers : writer[w].tries < Tries

\* What is written is some content, and it is synced before it is renamed.
CallsAreSane ==
    \A w \in Writers :
        /\ ~At(w, "idle") => writer[w].text \in Contents
        /\ At(w, "rename") => writer[w].synced

\* The names in use are below the counter, so that the next one is new.
NamesAreUsed ==
    \A w \in Writers :
        IF writer[w].step \in NamedSteps THEN writer[w].name \in Names /\ writer[w].name < sequence
        ELSE writer[w].name = NoName

NamesDiffer ==
    \A w, x \in Writers :
        w # x /\ writer[w].step \in NamedSteps => writer[x].name # writer[w].name

SaveInv ==
    /\ TypeOK
    /\ TriesLeft
    /\ CallsAreSane
    /\ NamesAreUsed
    /\ NamesDiffer
    /\ SavesAreWhole

LEMMA IdleCall ==
    ASSUME AtomicFileAssumption
    PROVE  /\ Idle \in Calls /\ Idle.step = "idle" /\ Idle.name = NoName /\ Idle.tries = 0
           /\ Idle.tries < Tries
<1>1. (CHOOSE p \in Paths : TRUE) \in Paths
  BY DEF AtomicFileAssumption
<1> QED
  BY <1>1 DEF AtomicFileAssumption, Idle, Calls, Steps, NoName, Names

LEMMA InitInv == ASSUME AtomicFileAssumption, ContentsAssumption PROVE Init => SaveInv
<1> SUFFICES ASSUME Init PROVE SaveInv
  OBVIOUS
<1>1. \A w \in Writers : writer[w] = Idle
  BY DEF Init
<1>2. TypeOK
  BY IdleCall DEF Init, TypeOK, Calls, AtomicFileAssumption
<1>3. TriesLeft /\ CallsAreSane /\ NamesAreUsed /\ NamesDiffer
  BY <1>1, IdleCall DEF TriesLeft, CallsAreSane, NamesAreUsed, NamesDiffer, At, NamedSteps
<1>4. FilesAreWhole /\ NoLitter
  BY DEF Init, FilesAreWhole, NoLitter, None, Torn
<1>5. TemporaryIsOwn
  BY <1>1, IdleCall DEF TemporaryIsOwn
<1> QED
  BY <1>2, <1>3, <1>4, <1>5 DEF SaveInv, SavesAreWhole

-----------------------------------------------------------------------------
(* The steps of one call *)

\* The call c replaces that of w; what the other invariants say of c and of
\* the temporaries is enough, as no other writer is touched.
LEMMA CallStep ==
    ASSUME AtomicFileAssumption, SaveInv, NEW w \in Writers, NEW c \in Calls, Set(w, c),
           c.tries < Tries,
           c.step # "idle" => c.text \in Contents,
           c.step = "rename" => c.synced,
           sequence' \in 0 .. MaxNames, sequence <= sequence',
           IF c.step \in NamedSteps THEN c.name \in Names /\ c.name < sequence' ELSE c.name = NoName,
           c.step \in NamedSteps => c.name = writer[w].name \/ c.name = sequence
    PROVE  /\ writer' \in [Writers -> Calls]
           /\ writer'[w] = c
           /\ \A x \in Writers \ {w} : writer'[x] = writer[x]
           /\ TriesLeft' /\ CallsAreSane' /\ NamesAreUsed' /\ NamesDiffer'
<1>1. writer \in [Writers -> Calls] /\ sequence \in 0 .. MaxNames
  BY DEF SaveInv, TypeOK, Calls
<1>2. /\ writer' = [writer EXCEPT ![w] = c]
      /\ writer' \in [Writers -> Calls]
      /\ writer'[w] = c
      /\ \A x \in Writers \ {w} : writer'[x] = writer[x]
  BY <1>1 DEF Set
<1>3. TriesLeft' /\ CallsAreSane'
  BY <1>2 DEF SaveInv, TriesLeft, CallsAreSane, At
<1>4. NamesAreUsed'
  <2> SUFFICES ASSUME NEW x \in Writers, x # w
               PROVE  IF writer[x].step \in NamedSteps
                      THEN writer[x].name \in Names /\ writer[x].name < sequence'
                      ELSE writer[x].name = NoName
    BY <1>2 DEF NamesAreUsed
  <2>1. AtomicFileAssumption
    OBVIOUS
  <2> QED
    BY <1>1, <2>1 DEF SaveInv, NamesAreUsed, Names, AtomicFileAssumption
<1>5. NamesDiffer'
  <2> SUFFICES ASSUME NEW y \in Writers, NEW x \in Writers, x # y, writer'[y].step \in NamedSteps
               PROVE  writer'[x].name # writer'[y].name
    BY DEF NamesDiffer
  <2>1. \A z \in Writers : writer[z].name # sequence \/ writer[z].step \notin NamedSteps
    BY <1>1 DEF SaveInv, NamesAreUsed, Names, AtomicFileAssumption
  <2>2. \A z \in Writers : writer[z].step \notin NamedSteps => writer[z].name = NoName
    BY DEF SaveInv, NamesAreUsed
  <2>3. \A z \in Writers : writer[z].step \in NamedSteps => writer[z].name # NoName
    BY DEF SaveInv, NamesAreUsed, Names, NoName, AtomicFileAssumption
  <2>4. CASE y = w
    <3>1. writer'[y] = c /\ writer'[x] = writer[x] /\ c.step \in NamedSteps
      BY <1>2, <2>4
    <3>2. c.name # NoName
      BY <3>1 DEF Names, NoName, AtomicFileAssumption
    <3>3. CASE c.name = sequence
      BY <2>1, <2>2, <3>1, <3>2, <3>3
    <3>4. CASE c.name = writer[w].name
      <4>1. writer[w].step \in NamedSteps
        BY <2>2, <3>2, <3>4
      <4> QED
        BY <2>4, <3>1, <3>4, <4>1 DEF SaveInv, NamesDiffer
    <3> QED
      BY <3>1, <3>3, <3>4
  <2>5. CASE x = w
    <3>1. writer'[x] = c /\ writer'[y] = writer[y] /\ writer[y].step \in NamedSteps
      BY <1>2, <2>5
    <3>2. CASE c.step \notin NamedSteps
      BY <2>3, <3>1, <3>2
    <3>3. CASE c.step \in NamedSteps /\ c.name = sequence
      BY <2>1, <3>1, <3>3
    <3>4. CASE c.step \in NamedSteps /\ c.name = writer[w].name
      BY <2>5, <3>1, <3>4 DEF SaveInv, NamesDiffer
    <3> QED
      BY <3>2, <3>3, <3>4
  <2>6. CASE x # w /\ y # w
    BY <1>2, <2>6 DEF SaveInv, NamesDiffer
  <2> QED
    BY <2>4, <2>5, <2>6
<1> QED
  BY <1>2, <1>3, <1>4, <1>5

LEMMA BeginKeeps ==
    ASSUME AtomicFileAssumption, ContentsAssumption, SaveInv, NEW w \in Writers, NEW p \in Paths,
           NEW v \in Contents, Begin(w, p, v)
    PROVE  SaveInv'
<1> DEFINE c == [Idle EXCEPT !.step = "reserve", !.path = p, !.text = v]
<1>1. /\ c \in Calls /\ c.step = "reserve" /\ c.text = v /\ c.name = NoName /\ c.tries < Tries
  BY IdleCall DEF Calls, Steps
<1>2. /\ writer' \in [Writers -> Calls]
      /\ writer'[w] = c
      /\ \A x \in Writers \ {w} : writer'[x] = writer[x]
      /\ TriesLeft' /\ CallsAreSane' /\ NamesAreUsed' /\ NamesDiffer'
  <2> HIDE DEF c
  <2>1. Set(w, c) /\ UNCHANGED sequence
    BY DEF Begin, c
  <2>2. sequence \in 0 .. MaxNames /\ MaxNames \in Nat
    BY DEF SaveInv, TypeOK, AtomicFileAssumption
  <2> QED
    BY <1>1, <2>1, <2>2, CallStep DEF NamedSteps
<1> HIDE DEF c
<1>3. UNCHANGED <<file, survives, temps, sequence, stops>>
  BY DEF Begin
<1>4. TypeOK'
  BY <1>2, <1>3 DEF SaveInv, TypeOK, Calls
<1>5. FilesAreWhole' /\ TemporaryIsOwn'
  BY <1>1, <1>2, <1>3 DEF SaveInv, SavesAreWhole, FilesAreWhole, TemporaryIsOwn, At, NamesDiffer,
     NamedSteps
<1>6. NoLitter'
  <2>1. writer[w].name = NoName
    BY DEF SaveInv, NamesAreUsed, Begin, At, NamedSteps
  <2> QED
    BY <1>2, <1>3, <2>1 DEF SaveInv, SavesAreWhole, NoLitter, At, Names, NoName, AtomicFileAssumption
<1> QED
  BY <1>2, <1>4, <1>5, <1>6 DEF SaveInv, SavesAreWhole

LEMMA ReserveKeeps ==
    ASSUME AtomicFileAssumption, ContentsAssumption, SaveInv, NEW w \in Writers, Reserve(w)
    PROVE  SaveInv'
<1>0. /\ writer \in [Writers -> Calls] /\ writer[w] \in Calls
      /\ sequence \in Names /\ MaxNames \in Nat /\ Tries \in Nat \ {0}
      /\ temps \in [Names -> Contents \cup {None, Torn}]
  BY DEF SaveInv, TypeOK, Calls, Reserve, Names, AtomicFileAssumption
<1>1. /\ writer[w].step = "reserve" /\ writer[w].text \in Contents /\ writer[w].name = NoName
      /\ writer[w].tries < Tries
  BY DEF Reserve, At, SaveInv, CallsAreSane, NamesAreUsed, TriesLeft, NamedSteps
<1>2. /\ sequence' = sequence + 1 /\ sequence <= sequence' /\ sequence' \in 0 .. MaxNames
      /\ UNCHANGED <<file, survives, stops>>
  BY <1>0 DEF Reserve, Names
<1>3. \A x \in Writers : writer[x].name # sequence
  BY <1>0 DEF SaveInv, NamesAreUsed, Names, NoName
<1>4. CASE temps[sequence] = None
  <2> DEFINE c == [writer[w] EXCEPT !.step = "write", !.name = sequence]
  <2>1. /\ c \in Calls /\ c.step = "write" /\ c.name = sequence /\ c.tries < Tries
        /\ c.text \in Contents
    BY <1>0, <1>1 DEF Calls, Steps
  <2>2. Set(w, c) /\ temps' = [temps EXCEPT ![sequence] = Torn]
    BY <1>4 DEF Reserve
  <2> HIDE DEF c
  <2>3. /\ writer' \in [Writers -> Calls]
        /\ writer'[w] = c
        /\ \A x \in Writers \ {w} : writer'[x] = writer[x]
        /\ TriesLeft' /\ CallsAreSane' /\ NamesAreUsed' /\ NamesDiffer'
    <3>1. c.name < sequence'
      BY <1>0, <1>2, <2>1 DEF Names
    <3> QED
      BY <1>0, <1>2, <2>1, <2>2, <3>1, CallStep DEF NamedSteps
  <2>4. TypeOK'
    BY <1>0, <1>2, <2>2, <2>3 DEF SaveInv, TypeOK, Calls
  <2>5. FilesAreWhole'
    BY <1>2 DEF SaveInv, SavesAreWhole, FilesAreWhole
  <2>6. TemporaryIsOwn'
    <3> SUFFICES ASSUME NEW x \in Writers, writer'[x].step \in {"write", "sync", "rename"}
                 PROVE  temps'[writer'[x].name] =
                            IF writer'[x].step = "write" THEN Torn ELSE writer'[x].text
      BY <2>3 DEF TemporaryIsOwn, At, NamesDiffer, NamedSteps
    <3>1. CASE x = w
      BY <1>0, <2>1, <2>2, <2>3, <3>1
    <3>2. CASE x # w
      BY <1>0, <1>3, <2>2, <2>3, <3>2 DEF SaveInv, SavesAreWhole, TemporaryIsOwn, At
    <3> QED
      BY <3>1, <3>2
  <2>7. NoLitter'
    <3> SUFFICES ASSUME stops = 0, NEW n \in Names, temps'[n] # None
                 PROVE  \E x \in Writers : writer'[x].name = n /\ writer'[x].step # "folder"
      BY <1>2 DEF NoLitter, At
    <3>1. CASE n = sequence
      BY <2>1, <2>3, <3>1
    <3>2. CASE n # sequence
      <4>1. PICK x \in Writers : writer[x].name = n /\ writer[x].step # "folder"
        BY <1>0, <2>2, <3>2 DEF SaveInv, SavesAreWhole, NoLitter, At
      <4>2. x # w
        BY <1>0, <1>1, <4>1 DEF Names, NoName
      <4> QED
        BY <2>3, <4>1, <4>2
    <3> QED
      BY <3>1, <3>2
  <2> QED
    BY <2>3, <2>4, <2>5, <2>6, <2>7 DEF SaveInv, SavesAreWhole
<1>5. CASE temps[sequence] # None
  <2> DEFINE c == IF writer[w].tries + 1 = Tries THEN Idle
                  ELSE [writer[w] EXCEPT !.tries = @ + 1]
  <2>1. /\ c \in Calls /\ c.step \in {"idle", "reserve"} /\ c.name = NoName /\ c.tries < Tries
        /\ c.step # "idle" => c.text \in Contents
    <3>1. CASE writer[w].tries + 1 = Tries
      BY <3>1, IdleCall
    <3>2. CASE writer[w].tries + 1 # Tries
      <4>1. writer[w].tries \in 0 .. Tries
        BY <1>0 DEF Calls
      <4>2. writer[w].tries + 1 \in 0 .. Tries /\ writer[w].tries + 1 < Tries
        BY <1>0, <1>1, <3>2, <4>1
      <4> QED
        BY <1>0, <1>1, <3>2, <4>2 DEF Calls
    <3> QED
      BY <3>1, <3>2
  <2>2. Set(w, c) /\ UNCHANGED temps
    BY <1>5 DEF Reserve
  <2> HIDE DEF c
  <2>3. /\ writer' \in [Writers -> Calls]
        /\ writer'[w] = c
        /\ \A x \in Writers \ {w} : writer'[x] = writer[x]
        /\ TriesLeft' /\ CallsAreSane' /\ NamesAreUsed' /\ NamesDiffer'
    BY <1>0, <1>2, <2>1, <2>2, CallStep DEF NamedSteps
  <2>4. TypeOK'
    BY <1>2, <2>2, <2>3 DEF SaveInv, TypeOK, Calls
  <2>5. FilesAreWhole' /\ TemporaryIsOwn'
    BY <1>2, <2>1, <2>2, <2>3 DEF SaveInv, SavesAreWhole, FilesAreWhole, TemporaryIsOwn, At,
       NamesDiffer, NamedSteps
  <2>6. NoLitter'
    BY <1>0, <1>1, <1>2, <2>2, <2>3 DEF SaveInv, SavesAreWhole, NoLitter, At, Names, NoName
  <2> QED
    BY <2>3, <2>4, <2>5, <2>6 DEF SaveInv, SavesAreWhole
<1> QED
  BY <1>4, <1>5

LEMMA WriteKeeps ==
    ASSUME AtomicFileAssumption, ContentsAssumption, SaveInv, NEW w \in Writers, Write(w)
    PROVE  SaveInv'
<1>0. /\ writer[w] \in Calls /\ writer[w].step = "write" /\ writer[w].text \in Contents
      /\ writer[w].name \in Names /\ writer[w].name < sequence /\ writer[w].tries < Tries
      /\ sequence \in 0 .. MaxNames /\ MaxNames \in Nat
      /\ temps \in [Names -> Contents \cup {None, Torn}]
  BY DEF Write, At, SaveInv, TypeOK, Calls, CallsAreSane, NamesAreUsed, TriesLeft, NamedSteps,
     AtomicFileAssumption
<1> DEFINE c == [writer[w] EXCEPT !.step = "sync"]
<1>1. /\ c \in Calls /\ c.step = "sync" /\ c.name = writer[w].name /\ c.text = writer[w].text
      /\ c.tries = writer[w].tries
  BY <1>0 DEF Calls, Steps
<1>2. /\ Set(w, c) /\ temps' = [temps EXCEPT ![writer[w].name] = writer[w].text]
      /\ UNCHANGED <<file, survives, sequence, stops>>
  BY DEF Write
<1> HIDE DEF c
<1>3. /\ writer' \in [Writers -> Calls]
      /\ writer'[w] = c
      /\ \A x \in Writers \ {w} : writer'[x] = writer[x]
      /\ TriesLeft' /\ CallsAreSane' /\ NamesAreUsed' /\ NamesDiffer'
  BY <1>0, <1>1, <1>2, CallStep DEF NamedSteps
<1>4. TypeOK'
  BY <1>0, <1>2, <1>3 DEF SaveInv, TypeOK, Calls
<1>5. FilesAreWhole'
  BY <1>2 DEF SaveInv, SavesAreWhole, FilesAreWhole
<1>6. TemporaryIsOwn'
  <2> SUFFICES ASSUME NEW x \in Writers, writer'[x].step \in {"write", "sync", "rename"}
               PROVE  temps'[writer'[x].name] =
                          IF writer'[x].step = "write" THEN Torn ELSE writer'[x].text
    BY <1>3 DEF TemporaryIsOwn, At, NamesDiffer, NamedSteps
  <2>1. CASE x = w
    BY <1>0, <1>1, <1>2, <1>3, <2>1
  <2>2. CASE x # w
    BY <1>0, <1>2, <1>3, <2>2 DEF SaveInv, SavesAreWhole, TemporaryIsOwn, At
  <2> QED
    BY <2>1, <2>2
<1>7. NoLitter'
  <2> SUFFICES ASSUME stops = 0, NEW n \in Names, temps'[n] # None
               PROVE  \E x \in Writers : writer'[x].name = n /\ writer'[x].step # "folder"
    BY <1>2 DEF NoLitter, At
  <2>1. CASE n = writer[w].name
    BY <1>1, <1>3, <2>1
  <2>2. CASE n # writer[w].name
    BY <1>0, <1>2, <1>3, <2>2 DEF SaveInv, SavesAreWhole, NoLitter, At
  <2> QED
    BY <2>1, <2>2
<1> QED
  BY <1>3, <1>4, <1>5, <1>6, <1>7 DEF SaveInv, SavesAreWhole

LEMMA SyncKeeps ==
    ASSUME AtomicFileAssumption, ContentsAssumption, SaveInv, NEW w \in Writers, Sync(w)
    PROVE  SaveInv'
<1>0. /\ writer[w] \in Calls /\ writer[w].step = "sync" /\ writer[w].text \in Contents
      /\ writer[w].name \in Names /\ writer[w].name < sequence /\ writer[w].tries < Tries
      /\ sequence \in 0 .. MaxNames
  BY DEF Sync, At, SaveInv, TypeOK, Calls, CallsAreSane, NamesAreUsed, TriesLeft, NamedSteps
<1> DEFINE c == [writer[w] EXCEPT !.step = "rename", !.synced = TRUE]
<1>1. /\ c \in Calls /\ c.step = "rename" /\ c.name = writer[w].name /\ c.text = writer[w].text
      /\ c.tries = writer[w].tries /\ c.synced
  BY <1>0 DEF Calls, Steps
<1>2. Set(w, c) /\ UNCHANGED <<file, survives, temps, sequence, stops>>
  BY DEF Sync
<1> HIDE DEF c
<1>3. /\ writer' \in [Writers -> Calls]
      /\ writer'[w] = c
      /\ \A x \in Writers \ {w} : writer'[x] = writer[x]
      /\ TriesLeft' /\ CallsAreSane' /\ NamesAreUsed' /\ NamesDiffer'
  <2>1. sequence <= sequence /\ sequence' = sequence
    BY <1>0, <1>2
  <2> QED
    BY <1>0, <1>1, <1>2, <2>1, CallStep DEF NamedSteps
<1>4. TypeOK'
  BY <1>2, <1>3 DEF SaveInv, TypeOK, Calls
<1>5. FilesAreWhole'
  BY <1>2 DEF SaveInv, SavesAreWhole, FilesAreWhole
<1>6. TemporaryIsOwn'
  BY <1>0, <1>1, <1>2, <1>3 DEF SaveInv, SavesAreWhole, TemporaryIsOwn, At, NamesDiffer, NamedSteps
<1>7. NoLitter'
  <2> SUFFICES ASSUME stops = 0, NEW n \in Names, temps[n] # None
               PROVE  \E x \in Writers : writer'[x].name = n /\ writer'[x].step # "folder"
    BY <1>2 DEF NoLitter, At
  <2> QED
    BY <1>0, <1>1, <1>3 DEF SaveInv, SavesAreWhole, NoLitter, At
<1> QED
  BY <1>3, <1>4, <1>5, <1>6, <1>7 DEF SaveInv, SavesAreWhole

LEMMA RenameKeeps ==
    ASSUME AtomicFileAssumption, ContentsAssumption, SaveInv, NEW w \in Writers, Rename(w)
    PROVE  SaveInv'
<1>0. /\ writer[w] \in Calls /\ writer[w].step = "rename" /\ writer[w].text \in Contents
      /\ writer[w].name \in Names /\ writer[w].name < sequence /\ writer[w].tries < Tries
      /\ sequence \in 0 .. MaxNames /\ writer[w].path \in Paths /\ writer[w].synced
      /\ temps \in [Names -> Contents \cup {None, Torn}]
      /\ file \in [Paths -> Contents \cup {None, Torn}]
      /\ survives \in [Paths -> SUBSET (Contents \cup {None, Torn})]
  BY DEF Rename, At, SaveInv, TypeOK, Calls, CallsAreSane, NamesAreUsed, TriesLeft, NamedSteps
<1> DEFINE c == [writer[w] EXCEPT !.step = "folder"]
           text == temps[writer[w].name]
<1>1. /\ c \in Calls /\ c.step = "folder" /\ c.name = writer[w].name /\ c.text = writer[w].text
      /\ c.tries = writer[w].tries
  BY <1>0 DEF Calls, Steps
<1>2. /\ Set(w, c) /\ UNCHANGED <<sequence, stops>>
      /\ file' = [file EXCEPT ![writer[w].path] = text]
      /\ survives' = [survives EXCEPT ![writer[w].path] = @ \cup {text}]
      /\ temps' = [temps EXCEPT ![writer[w].name] = None]
  BY <1>0 DEF Rename
<1>3. text \in Contents /\ text # Torn /\ None # Torn
  BY <1>0 DEF SaveInv, SavesAreWhole, TemporaryIsOwn, At, ContentsAssumption, None, Torn
<1> HIDE DEF c, text
<1>4. /\ writer' \in [Writers -> Calls]
      /\ writer'[w] = c
      /\ \A x \in Writers \ {w} : writer'[x] = writer[x]
      /\ TriesLeft' /\ CallsAreSane' /\ NamesAreUsed' /\ NamesDiffer'
  <2>1. sequence <= sequence /\ sequence' = sequence
    BY <1>0, <1>2
  <2> QED
    BY <1>0, <1>1, <1>2, <2>1, CallStep DEF NamedSteps
<1>5. TypeOK'
  <2>1. /\ file' \in [Paths -> Contents \cup {None, Torn}]
        /\ survives' \in [Paths -> SUBSET (Contents \cup {None, Torn})]
        /\ temps' \in [Names -> Contents \cup {None, Torn}]
    BY <1>0, <1>2, <1>3
  <2> QED
    BY <1>2, <1>4, <2>1 DEF SaveInv, TypeOK, Calls
<1>6. FilesAreWhole'
  BY <1>0, <1>2, <1>3 DEF SaveInv, SavesAreWhole, FilesAreWhole
<1>7. TemporaryIsOwn'
  <2> SUFFICES ASSUME NEW x \in Writers, writer'[x].step \in {"write", "sync", "rename"}
               PROVE  temps'[writer'[x].name] =
                          IF writer'[x].step = "write" THEN Torn ELSE writer'[x].text
    BY <1>4 DEF TemporaryIsOwn, At, NamesDiffer, NamedSteps
  <2>1. x # w /\ writer'[x] = writer[x]
    BY <1>1, <1>4
  <2> QED
    BY <1>0, <1>2, <2>1 DEF SaveInv, SavesAreWhole, TemporaryIsOwn, At
<1>8. NoLitter'
  <2> SUFFICES ASSUME stops = 0, NEW n \in Names, temps'[n] # None
               PROVE  \E x \in Writers : writer'[x].name = n /\ writer'[x].step # "folder"
    BY <1>2 DEF NoLitter, At
  <2>1. n # writer[w].name /\ temps[n] # None
    BY <1>0, <1>2
  <2> QED
    BY <1>4, <2>1 DEF SaveInv, SavesAreWhole, NoLitter, At
<1> QED
  BY <1>4, <1>5, <1>6, <1>7, <1>8 DEF SaveInv, SavesAreWhole

\* A call ends: its temporary, if it has one, is gone.
LEMMA EndKeeps ==
    ASSUME AtomicFileAssumption, ContentsAssumption, SaveInv, NEW w \in Writers,
           ~At(w, "idle"), Set(w, Idle),
           temps' = [n \in Names |-> IF n = writer[w].name THEN None ELSE temps[n]],
           survives' = [p \in Paths |-> {file[p]}] \/ UNCHANGED survives,
           UNCHANGED <<file, sequence, stops>>
    PROVE  SaveInv'
<1>0. /\ writer[w] \in Calls /\ sequence \in 0 .. MaxNames
      /\ temps \in [Names -> Contents \cup {None, Torn}]
      /\ file \in [Paths -> Contents \cup {None, Torn}]
      /\ survives \in [Paths -> SUBSET (Contents \cup {None, Torn})]
  BY DEF SaveInv, TypeOK, Calls
<1>1. /\ writer' \in [Writers -> Calls]
      /\ writer'[w] = Idle
      /\ \A x \in Writers \ {w} : writer'[x] = writer[x]
      /\ TriesLeft' /\ CallsAreSane' /\ NamesAreUsed' /\ NamesDiffer'
  <2>1. sequence <= sequence /\ sequence' = sequence
    BY <1>0
  <2> QED
    BY <1>0, <2>1, IdleCall, CallStep DEF NamedSteps
<1>2. TypeOK'
  <2>1. survives' \in [Paths -> SUBSET (Contents \cup {None, Torn})]
    BY <1>0
  <2>2. temps' \in [Names -> Contents \cup {None, Torn}]
    BY <1>0
  <2> QED
    BY <1>1, <2>1, <2>2 DEF SaveInv, TypeOK, Calls
<1>3. FilesAreWhole'
  BY DEF SaveInv, SavesAreWhole, FilesAreWhole
<1>4. TemporaryIsOwn'
  <2> SUFFICES ASSUME NEW x \in Writers, writer'[x].step \in {"write", "sync", "rename"}
               PROVE  temps'[writer'[x].name] =
                          IF writer'[x].step = "write" THEN Torn ELSE writer'[x].text
    BY <1>1 DEF TemporaryIsOwn, At, NamesDiffer, NamedSteps
  <2>1. x # w /\ writer'[x] = writer[x]
    BY <1>1, IdleCall
  <2>2. writer[x].name \in Names /\ writer[x].name # writer[w].name
    BY <2>1 DEF SaveInv, NamesAreUsed, NamesDiffer, NamedSteps
  <2> QED
    BY <1>0, <2>1, <2>2 DEF SaveInv, SavesAreWhole, TemporaryIsOwn, At
<1>5. NoLitter'
  <2> SUFFICES ASSUME stops = 0, NEW n \in Names, temps'[n] # None
               PROVE  \E x \in Writers : writer'[x].name = n /\ writer'[x].step # "folder"
    BY DEF NoLitter, At
  <2>1. n # writer[w].name /\ temps[n] # None
    BY <1>0
  <2> QED
    BY <1>1, <2>1 DEF SaveInv, SavesAreWhole, NoLitter, At
<1> QED
  BY <1>1, <1>2, <1>3, <1>4, <1>5 DEF SaveInv, SavesAreWhole

\* The program ends: the counter starts again, and nobody uses a name.
LEMMA StopKeeps ==
    ASSUME AtomicFileAssumption, ContentsAssumption, SaveInv,
           writer' = [w \in Writers |-> Idle], sequence' = 0, stops' = stops + 1,
           stops < MaxStops,
           file' \in [Paths -> Contents \cup {None, Torn}],
           survives' \in [Paths -> SUBSET (Contents \cup {None, Torn})],
           temps' \in [Names -> Contents \cup {None, Torn}], FilesAreWhole'
    PROVE  SaveInv'
<1>1. \A w \in Writers : writer'[w] = Idle
  OBVIOUS
<1>2. stops' \in 0 .. MaxStops /\ stops' # 0 /\ sequence' \in 0 .. MaxNames
  BY DEF SaveInv, TypeOK, AtomicFileAssumption
<1>3. TypeOK'
  BY <1>2, IdleCall DEF TypeOK, Calls
<1>4. TriesLeft' /\ CallsAreSane' /\ NamesAreUsed' /\ NamesDiffer' /\ TemporaryIsOwn'
  BY <1>1, IdleCall DEF TriesLeft, CallsAreSane, NamesAreUsed, NamesDiffer, TemporaryIsOwn, At, NamedSteps
<1> QED
  BY <1>2, <1>3, <1>4 DEF SaveInv, SavesAreWhole, NoLitter

LEMMA StepInv ==
    ASSUME AtomicFileAssumption, ContentsAssumption, SaveInv, [Next]_vars PROVE SaveInv'
<1>1. ASSUME NEW w \in Writers, SyncFolder(w) PROVE SaveInv'
  <2>1. ~At(w, "idle") /\ writer[w].name \in Names
    BY <1>1 DEF SyncFolder, At, SaveInv, NamesAreUsed, NamedSteps
  <2>2. temps' = [n \in Names |-> IF n = writer[w].name THEN None ELSE temps[n]]
    BY <1>1, <2>1 DEF SyncFolder, SaveInv, TypeOK
  <2> QED
    BY <1>1, <2>1, <2>2, EndKeeps DEF SyncFolder
<1>2. ASSUME NEW w \in Writers, Fail(w) PROVE SaveInv'
  BY <1>2, EndKeeps DEF Fail, At
<1>3. CASE Kill
  BY <1>3, StopKeeps DEF Kill, SaveInv, TypeOK, SavesAreWhole, FilesAreWhole
<1>4. CASE LosePower
  <2>1. \A p \in Paths : file'[p] \in survives[p] /\ file'[p] # Torn
    BY <1>4 DEF LosePower, SaveInv, SavesAreWhole, FilesAreWhole
  <2>2. survives \in [Paths -> SUBSET (Contents \cup {None, Torn})]
    BY DEF SaveInv, TypeOK
  <2>3. file' \in [Paths -> UNION {survives[p] : p \in Paths}]
    BY <1>4 DEF LosePower
  <2>4. file' \in [Paths -> Contents \cup {None, Torn}]
    BY <2>1, <2>2, <2>3
  <2>5. /\ survives' = [p \in Paths |-> {file'[p]}]
        /\ survives' \in [Paths -> SUBSET (Contents \cup {None, Torn})]
    BY <1>4, <2>4 DEF LosePower
  <2>6. temps' \in [Names -> Contents \cup {None, Torn}]
    BY <1>4 DEF LosePower, SaveInv, TypeOK
  <2>7. FilesAreWhole'
    BY <2>1, <2>5 DEF FilesAreWhole
  <2> QED
    BY <1>4, <2>4, <2>5, <2>6, <2>7, StopKeeps DEF LosePower
<1>5. CASE UNCHANGED vars
  BY <1>5 DEF vars, SaveInv, TypeOK, TriesLeft, CallsAreSane, NamesAreUsed, NamesDiffer,
     SavesAreWhole, FilesAreWhole, TemporaryIsOwn, NoLitter, At
<1> QED
  BY <1>1, <1>2, <1>3, <1>4, <1>5, BeginKeeps, ReserveKeeps, WriteKeeps, SyncKeeps, RenameKeeps
     DEF Next

-----------------------------------------------------------------------------
(* The theorems *)

\* SaveInv is an invariant of the writers.
THEOREM Invariance == ASSUME AtomicFileAssumption, ContentsAssumption PROVE Spec => []SaveInv
<1>1. Init => SaveInv
  BY InitInv
<1>2. SaveInv /\ [Next]_vars => SaveInv'
  BY StepInv
<1> QED
  BY <1>1, <1>2, PTL DEF Spec

\* Every variable keeps its type; in particular a writer never uses more names
\* than the bound gives it.
THEOREM TypeCorrect == ASSUME AtomicFileAssumption, ContentsAssumption PROVE Spec => []TypeOK
<1>1. SaveInv => TypeOK
  BY DEF SaveInv
<1> QED
  BY <1>1, Invariance, PTL

\* A reader finds the old file or the whole new one, also after a stop and a
\* loss of power; no two writers share a temporary; and a program that was
\* never stopped leaves none behind.
THEOREM FilesAreReplacedWhole ==
    ASSUME AtomicFileAssumption, ContentsAssumption PROVE Spec => []SavesAreWhole
<1>1. SaveInv => SavesAreWhole
  BY DEF SaveInv
<1> QED
  BY <1>1, Invariance, PTL

\* What a reader finds changes only to what a save of that very file was given,
\* or, when power is lost, to something that file held before.
THEOREM FilesChangeBySaves ==
    ASSUME AtomicFileAssumption, ContentsAssumption PROVE Spec => ChangesAreSaves
<1>1. SaveInv /\ [Next]_vars => [ChangedBySave]_vars
  <2> SUFFICES ASSUME SaveInv, Next, NEW p \in Paths, file'[p] # file[p]
               PROVE  \/ \E w \in Writers : /\ At(w, "rename") /\ writer[w].path = p
                                            /\ file'[p] = writer[w].text
                      \/ stops' > stops /\ file'[p] \in survives[p]
    BY DEF ChangedBySave
  <2>1. ASSUME NEW w \in Writers, Rename(w)
        PROVE  At(w, "rename") /\ writer[w].path = p /\ file'[p] = writer[w].text
    <3>1. temps[writer[w].name] = writer[w].text
      BY <2>1 DEF Rename, SaveInv, SavesAreWhole, TemporaryIsOwn, At
    <3> QED
      BY <2>1, <3>1 DEF Rename, SaveInv, TypeOK
  <2>2. CASE LosePower
    BY <2>2 DEF LosePower, SaveInv, TypeOK
  <2>3. ~UNCHANGED file
    OBVIOUS
  <2> QED
    BY <2>1, <2>2, <2>3 DEF Next, Begin, Reserve, Write, Sync, SyncFolder, Fail, Kill
<1> QED
  BY <1>1, Invariance, PTL DEF Spec, ChangesAreSaves
-----------------------------------------------------------------------------
(* The activity log: the inductive invariant.                              *)

EntryRecords == [id : Nat, outcome : Outcomes]
OpRecords == [id : Nat, kind : DOMAIN Words, stage : {"none", "submitted", "ran"},
              doubt : BOOLEAN, cancelled : BOOLEAN]

\* Every list there is: shown, in the file, and handed to the executor.
Lists == {entries, disk.list} \cup {saves[i] : i \in 1..Len(saves)}

Increasing(list) == \A i, j \in 1..Len(list) : i < j => list[i].id < list[j].id

\* No list is ahead of the one shown, whose last id the next one exceeds.
NotAhead(list) ==
  \A i \in 1..Len(list) : entries # <<>> /\ list[i].id <= entries[Len(entries)].id

\* What a list claims of an operation, Git did.
Honest(list) ==
  \A i \in 1..Len(list) :
    /\ list[i].id \in DOMAIN truth
    /\ list[i].outcome = "success" => truth[list[i].id] = "success"
    /\ list[i].outcome = "failure" => truth[list[i].id] \in {"failure", "unspoken"}

ListIsSound(list) == list \in Entries /\ Increasing(list) /\ NotAhead(list) /\ Honest(list)

\* The newest entry is that of the operation in flight, and no other runs.
NewestRuns ==
  /\ \A i \in 1..Len(entries) : entries[i].outcome = "running" => i = Len(entries) /\ op # NoOp
  /\ op # NoOp => /\ op.stage # "none"
                  /\ entries # <<>>
                  /\ entries[Len(entries)] = [id |-> op.id, outcome |-> "running"]

\* Nothing is known of the operation until Git ends, and then its message casts
\* doubt on it when its effect is known to be unknown.
TruthFollows ==
  /\ truth \in [DOMAIN truth -> {"none"} \cup Ends]
  /\ op.stage = "submitted" => truth[op.id] = "none"
  /\ op.stage = "ran" => truth[op.id] # "none" /\ (truth[op.id] = "unknown" => op.doubt)

\* Until a restart what succeeded is not listed as anything else.
SuccessIsListed ==
  kills = 0 => \A i \in 1..Len(entries) :
                 truth[entries[i].id] = "success" => entries[i].outcome \in {"running", "success"}

LogTypes ==
  /\ saves \in Seq(Entries)
  /\ error \in {"none", "unavailable", "unsaved"}
  /\ disk \in [kind : {"absent", "refused", "list"}, list : Entries]
  /\ disk.kind # "list" => disk.list = <<>>
  /\ op \in OpRecords
  /\ kills \in Nat

LogInvariant ==
  /\ LogTypes
  /\ \A list \in Lists : ListIsSound(list)
  /\ NewestRuns /\ TruthFollows /\ SuccessIsListed /\ RefusedIsKept

\* With increasing ids the entry of an id is the one that has it.
LEMMA EntryIsFound ==
  ASSUME NEW list, Increasing(list), NEW n \in Nat, Len(list) = n, NEW i \in 1..Len(list),
         \A j \in 1..Len(list) : list[j].id \in Nat
  PROVE  Entry(list, list[i].id) = list[i]
<1> DEFINE Is(j) == j \in 1..Len(list) /\ list[j].id = list[i].id
           k == CHOOSE j \in 1..Len(list) : list[j].id = list[i].id
<1>1. k \in 1..Len(list) /\ list[k].id = list[i].id
  OBVIOUS
<1> HIDE DEF k
<1>2. k = i
  <2>1. k \in Nat /\ i \in Nat
    BY <1>1
  <2>2. ~(k < i) /\ ~(i < k)
    BY <1>1 DEF Increasing
  <2> QED
    BY <2>1, <2>2
<1> QED
  BY <1>2 DEF Entry, k

\* What a list in Entries is.
LEMMA EntriesAre ==
  ASSUME NEW list \in Entries
  PROVE  /\ list \in Seq(EntryRecords) /\ Len(list) \in Nat /\ Len(list) <= Limit
         /\ DOMAIN list = 1..Len(list)
         /\ \A i \in 1..Len(list) : list[i] \in EntryRecords /\ list[i].id \in Nat
         /\ list = <<>> <=> Len(list) = 0
<1>1. list \in Seq(EntryRecords) /\ Len(list) <= Limit
  BY DEF Entries, EntryRecords
<1>2. Len(list) \in Nat /\ DOMAIN list = 1..Len(list)
  BY <1>1, LenProperties
<1>3. \A i \in 1..Len(list) : list[i] \in EntryRecords
  BY <1>1, ElementOfSeq
<1>4. list = <<>> <=> Len(list) = 0
  BY <1>1, EmptySeq
<1> QED
  BY <1>1, <1>2, <1>3, <1>4 DEF EntryRecords

\* The invariant says what the runs check.
LEMMA SoundLogIsTrue ==
  ASSUME LogInvariant
  PROVE  LogIsTrue
<1>1. entries \in Entries /\ disk.list \in Entries
  BY DEF LogInvariant, Lists, ListIsSound
<1>2. LogTypeOK
  BY <1>1, LenProperties DEF LogInvariant, LogTypes, LogTypeOK, OpRecords
<1>3. IdsIncrease
  BY DEF LogInvariant, Lists, ListIsSound, Increasing, IdsIncrease
<1>4. ASSUME NEW list \in {entries, disk.list}, NEW i \in 1..Len(list)
      PROVE  Entry(list, list[i].id) = list[i]
  <2>1. Increasing(list) /\ list \in Entries
    BY DEF LogInvariant, Lists, ListIsSound
  <2> QED
    BY <2>1, EntriesAre, EntryIsFound
<1>5. RunningIsInFlight
  <2>1. CASE op = NoOp
    <3>1. \A i \in 1..Len(entries) : Entry(entries, entries[i].id).outcome # "running"
      BY <1>4, <2>1 DEF LogInvariant, NewestRuns
    <3> QED
      BY <2>1, <3>1 DEF RunningIsInFlight, IdsIn
  <2>2. CASE op # NoOp
    <3>1. Len(entries) \in 1..Len(entries)
      BY <1>1, <2>2, EntriesAre DEF LogInvariant, NewestRuns
    <3>2. entries[Len(entries)].id = op.id /\ entries[Len(entries)].outcome = "running"
      BY <2>2 DEF LogInvariant, NewestRuns
    <3>3. Entry(entries, op.id).outcome = "running"
      BY <1>4, <3>1, <3>2
    <3>4. \A i \in 1..Len(entries) :
            Entry(entries, entries[i].id).outcome = "running" => entries[i].id = op.id
      BY <1>4, <3>2 DEF LogInvariant, NewestRuns
    <3> QED
      BY <2>2, <3>1, <3>2, <3>3, <3>4 DEF RunningIsInFlight, IdsIn
  <2> QED
    BY <2>1, <2>2
<1>6. NoFalseOutcome
  <2> SUFFICES ASSUME NEW list \in {entries, disk.list}, NEW i \in 1..Len(list)
               PROVE  /\ list[i].outcome = "success" => truth[list[i].id] = "success"
                      /\ list[i].outcome = "failure" => truth[list[i].id] \in {"failure", "unspoken"}
                      /\ (truth[list[i].id] = "success" /\ list = entries /\ kills = 0) =>
                           list[i].outcome \in {"running", "success"}
    BY <1>4 DEF NoFalseOutcome, IdsIn
  <2>1. Honest(list)
    BY DEF LogInvariant, Lists, ListIsSound
  <2> QED
    BY <2>1 DEF Honest, LogInvariant, SuccessIsListed
<1> QED
  BY <1>2, <1>3, <1>5, <1>6 DEF LogIsTrue, LogInvariant

-----------------------------------------------------------------------------
(* The activity log: what the operators on lists do.                       *)

\* Every list handed to the executor is one of the lists.
LEMMA SavedAreLists ==
  ASSUME LogInvariant
  PROVE  \A i \in 1..Len(saves) : ListIsSound(saves[i])
BY DEF LogInvariant, Lists

\* State::read: the list as it was, without an entry in progress.
LEMMA LoadedIs ==
  ASSUME NEW list \in Entries, ActivityLogAssumption
  PROVE  /\ Loaded(list) \in Entries /\ Len(Loaded(list)) = Len(list)
         /\ \A i \in 1..Len(list) :
              /\ Loaded(list)[i].id = list[i].id
              /\ Loaded(list)[i].outcome =
                   IF list[i].outcome = "running" THEN "uncertain" ELSE list[i].outcome
<1>1. /\ list \in Seq(EntryRecords) /\ Len(list) \in Nat /\ Len(list) <= Limit
      /\ \A i \in 1..Len(list) : list[i] \in EntryRecords
  BY EntriesAre
<1>2. SubSeq(list, 1, Len(list)) = list
  BY <1>1, SubSeqFull
<1>3. ~(Len(list) > Limit)
  BY <1>1 DEF ActivityLogAssumption
<1> DEFINE loaded == [i \in 1..Len(list) |->
                       IF list[i].outcome = "running"
                         THEN [list[i] EXCEPT !.outcome = "uncertain"] ELSE list[i]]
<1>4. Loaded(list) = loaded
  BY <1>2, <1>3 DEF Loaded
<1>5. \A i \in 1..Len(list) : loaded[i] \in EntryRecords
  BY <1>1 DEF EntryRecords, Outcomes
<1>6. loaded \in Seq(EntryRecords) /\ Len(loaded) = Len(list)
  <2>1. loaded \in [1..Len(list) -> EntryRecords]
    BY <1>5
  <2>2. loaded \in Seq(EntryRecords)
    BY <1>1, <2>1, SeqDef
  <2> QED
    BY <1>1, <2>1, <2>2, LenProperties
<1>7. \A i \in 1..Len(list) :
        /\ loaded[i].id = list[i].id
        /\ loaded[i].outcome =
             IF list[i].outcome = "running" THEN "uncertain" ELSE list[i].outcome
  BY <1>1 DEF EntryRecords
<1>8. loaded \in Entries
  BY <1>1, <1>6 DEF Entries, EntryRecords
<1> HIDE DEF loaded
<1> QED
  BY <1>4, <1>6, <1>7, <1>8

\* The list with one more entry: its last, behind the newest of the others.
LEMMA PushIs ==
  ASSUME NEW list \in Entries, NEW entry \in EntryRecords, ActivityLogAssumption
  PROVE  \E drop \in {0, 1} :
           /\ Push(list, entry) \in Entries
           /\ Len(Push(list, entry)) = Len(list) + 1 - drop
           /\ Len(list) + 1 - drop > 0
           /\ Push(list, entry)[Len(list) + 1 - drop] = entry
           /\ \A i \in 1..(Len(list) - drop) : Push(list, entry)[i] = list[i + drop]
<1> DEFINE longer == Append(list, entry)
<1>1. /\ list \in Seq(EntryRecords) /\ Len(list) \in Nat /\ Len(list) <= Limit
      /\ Limit \in Nat /\ Limit > 0
  BY EntriesAre DEF ActivityLogAssumption
<1>2. /\ longer \in Seq(EntryRecords) /\ longer # <<>>
      /\ Len(longer) = Len(list) + 1
      /\ \A i \in 1..Len(list) : longer[i] = list[i]
      /\ longer[Len(list) + 1] = entry
  BY <1>1, AppendProperties
<1> HIDE DEF longer
<1>3. CASE Len(longer) > Limit
  <2>1. Push(list, entry) = Tail(longer)
    BY <1>3 DEF Push, longer
  <2>2. /\ Tail(longer) \in Seq(EntryRecords)
        /\ Len(Tail(longer)) = Len(longer) - 1
        /\ \A i \in 1..Len(Tail(longer)) : Tail(longer)[i] = longer[i + 1]
    BY <1>2, HeadTailProperties
  <2>3. Len(Tail(longer)) = Len(list) /\ Len(list) > 0
    BY <1>1, <1>2, <1>3, <2>2
  <2>4. Tail(longer)[Len(list)] = entry
    BY <1>1, <1>2, <2>2, <2>3
  <2>5. \A i \in 1..(Len(list) - 1) : Tail(longer)[i] = list[i + 1]
    <3>1. \A i \in 1..(Len(list) - 1) : i + 1 \in 1..Len(list) /\ i \in 1..Len(Tail(longer))
      BY <1>1, <2>3
    <3> QED
      BY <1>2, <2>2, <3>1
  <2>6. Tail(longer) \in Entries
    BY <1>1, <2>2, <2>3 DEF Entries, EntryRecords
  <2> QED
    BY <1>1, <2>1, <2>3, <2>4, <2>5, <2>6
<1>4. CASE ~(Len(longer) > Limit)
  <2>1. Push(list, entry) = longer
    BY <1>4 DEF Push, longer
  <2>2. longer \in Entries
    BY <1>1, <1>2, <1>4 DEF Entries, EntryRecords
  <2> QED
    BY <1>1, <1>2, <2>1, <2>2
<1> QED
  BY <1>3, <1>4

-----------------------------------------------------------------------------
(* The activity log: one lemma per action.                                 *)

\* Lists that were sound stay so while what is shown and what Git did stay.
LEMMA SameLists ==
  ASSUME \A list \in Lists : ListIsSound(list), UNCHANGED <<entries, truth>>, Lists' \subseteq Lists
  PROVE  (\A list \in Lists : ListIsSound(list))'
BY DEF ListIsSound, NotAhead, Honest

\* What is handed to the executor is the list shown, or nothing.
LEMMA SaveIs ==
  ASSUME LogInvariant, NEW list \in Entries, Save(list), UNCHANGED <<disk, error>>
  PROVE  /\ saves' \in Seq(Entries)
         /\ {saves'[i] : i \in 1..Len(saves')} \subseteq Lists \cup {list}
         /\ RefusedIsKept'
<1>1. saves \in Seq(Entries)
  BY DEF LogInvariant, LogTypes
<1>2. CASE error = "unavailable"
  <2>1. saves' = saves
    BY <1>2 DEF Save
  <2> QED
    BY <1>1, <2>1 DEF Lists, LogInvariant, RefusedIsKept
<1>3. CASE error # "unavailable"
  <2>1. saves' = Append(saves, list)
    BY <1>3 DEF Save
  <2>2. /\ saves' \in Seq(Entries) /\ Len(saves') = Len(saves) + 1
        /\ \A i \in 1..Len(saves) : saves'[i] = saves[i]
        /\ saves'[Len(saves) + 1] = list
    BY <1>1, <2>1, AppendProperties
  <2>3. Len(saves) \in Nat
    BY <1>1, LenProperties
  <2>4. \A i \in 1..Len(saves') : saves'[i] \in Lists \cup {list}
    <3> SUFFICES ASSUME NEW i \in 1..Len(saves')
                 PROVE  saves'[i] \in Lists \cup {list}
      OBVIOUS
    <3>1. CASE i \in 1..Len(saves)
      BY <2>2, <3>1 DEF Lists
    <3>2. CASE i = Len(saves) + 1
      BY <2>2, <3>2
    <3> QED
      BY <2>2, <2>3, <3>1, <3>2
  <2> QED
    BY <1>3, <2>2, <2>4 DEF LogInvariant, RefusedIsKept
<1> QED
  BY <1>2, <1>3

\* An operation is accepted: its id is new to every list.
LEMMA BeginEntryStep ==
  ASSUME LogInvariant, ActivityLogAssumption, BeginEntry
  PROVE  LogInvariant'
<1> PICK now \in Clock, kind \in DOMAIN Words :
      LET id == NextId(now)
          list == Push(entries, [id |-> id, outcome |-> "running"])
      IN /\ entries' = list
         /\ Save(list)
         /\ op' = Submitted(id, kind)
         /\ truth' = [i \in DOMAIN truth \cup {id} |->
                        IF i = id THEN "none" ELSE truth[i]]
  BY DEF BeginEntry
<1> DEFINE id == NextId(now)
           entry == [id |-> id, outcome |-> "running"]
           last == entries[Len(entries)]
<1> PICK list : list = Push(entries, entry)
  OBVIOUS
<1>1. /\ entries' = list /\ Save(list)
      /\ op' = Submitted(id, kind)
      /\ truth' = [i \in DOMAIN truth \cup {id} |-> IF i = id THEN "none" ELSE truth[i]]
      /\ op = NoOp
      /\ UNCHANGED <<error, disk, kills>>
  BY DEF BeginEntry
<1>2. entries \in Entries /\ Increasing(entries) /\ Honest(entries)
  BY DEF LogInvariant, Lists, ListIsSound
<1>3. /\ Len(entries) \in Nat /\ (entries = <<>> <=> Len(entries) = 0)
      /\ \A i \in 1..Len(entries) : entries[i] \in EntryRecords /\ entries[i].id \in Nat
  BY <1>2, EntriesAre
<1>4. id \in Nat /\ (entries # <<>> => last.id \in Nat /\ last.id < id)
  <2>1. now \in Nat
    BY DEF ActivityLogAssumption
  <2>2. CASE entries = <<>>
    BY <2>1, <2>2 DEF NextId
  <2>3. CASE entries # <<>>
    <3>1. last.id \in Nat
      BY <1>3, <2>3
    <3> QED
      BY <2>1, <2>3, <3>1 DEF NextId, Last
  <2> QED
    BY <2>2, <2>3
<1> HIDE DEF id
<1>5. entry \in EntryRecords /\ entry.id = id /\ entry.outcome = "running"
  BY <1>4 DEF EntryRecords, Outcomes
<1> HIDE DEF entry
<1>6. PICK drop \in {0, 1} :
        /\ list \in Entries
        /\ Len(list) = Len(entries) + 1 - drop
        /\ Len(entries) + 1 - drop > 0
        /\ list[Len(entries) + 1 - drop] = entry
        /\ \A i \in 1..(Len(entries) - drop) : list[i] = entries[i + drop]
  BY <1>2, <1>5, PushIs
<1>7. /\ Len(list) \in Nat /\ Len(list) > 0 /\ list # <<>> /\ list[Len(list)] = entry
      /\ Len(list) \in 1..Len(list)
      /\ \A i \in 1..Len(list) : i # Len(list) =>
           i + drop \in 1..Len(entries) /\ list[i] = entries[i + drop]
  <2>1. Len(list) \in Nat /\ (list = <<>> <=> Len(list) = 0)
    BY <1>6, EntriesAre
  <2> QED
    BY <1>3, <1>6, <2>1
<1>8. \A old \in Lists : \A i \in 1..Len(old) : old[i].id \in Nat /\ old[i].id < id
  <2> SUFFICES ASSUME NEW old \in Lists, NEW i \in 1..Len(old)
               PROVE  old[i].id \in Nat /\ old[i].id < id
    OBVIOUS
  <2>1. ListIsSound(old)
    BY DEF LogInvariant
  <2>2. old[i].id \in Nat /\ entries # <<>> /\ old[i].id <= last.id
    BY <2>1, EntriesAre DEF ListIsSound, NotAhead
  <2> QED
    BY <1>4, <2>2
<1>9. /\ DOMAIN truth \subseteq DOMAIN truth' /\ id \in DOMAIN truth' /\ truth'[id] = "none"
      /\ \A i \in DOMAIN truth : i # id => truth'[i] = truth[i]
      /\ truth' \in [DOMAIN truth' -> {"none"} \cup Ends]
  BY <1>1 DEF LogInvariant, TruthFollows
<1>10. \A old \in Lists : ListIsSound(old)'
  <2> SUFFICES ASSUME NEW old \in Lists
               PROVE  NotAhead(old)' /\ Honest(old)'
    BY DEF LogInvariant, ListIsSound
  <2>1. NotAhead(old)'
    BY <1>1, <1>4, <1>5, <1>7, <1>8 DEF NotAhead
  <2>2. Honest(old)'
    <3> SUFFICES ASSUME NEW i \in 1..Len(old)
                 PROVE  /\ old[i].id \in DOMAIN truth'
                        /\ old[i].outcome = "success" => truth'[old[i].id] = "success"
                        /\ old[i].outcome = "failure" => truth'[old[i].id] \in {"failure", "unspoken"}
      BY DEF Honest
    <3>1. /\ old[i].id \in DOMAIN truth
          /\ old[i].outcome = "success" => truth[old[i].id] = "success"
          /\ old[i].outcome = "failure" => truth[old[i].id] \in {"failure", "unspoken"}
      BY DEF LogInvariant, ListIsSound, Honest
    <3>2. old[i].id # id
      BY <1>4, <1>8
    <3> QED
      BY <1>9, <3>1, <3>2
  <2> QED
    BY <2>1, <2>2
<1>11. entries \in Lists
  BY DEF Lists
<1>12. \A i \in 1..Len(list) : list[i].id \in Nat /\ list[i].id <= id /\ (i # Len(list) => list[i].id < id)
  BY <1>4, <1>5, <1>7, <1>8, <1>11
<1>13. Increasing(list)
  <2> SUFFICES ASSUME NEW i \in 1..Len(list), NEW j \in 1..Len(list), i < j
               PROVE  list[i].id < list[j].id
    BY DEF Increasing
  <2>1. i # Len(list)
    BY <1>7
  <2>2. CASE j = Len(list)
    BY <1>5, <1>7, <1>12, <2>1, <2>2
  <2>3. CASE j # Len(list)
    <3>1. i + drop < j + drop
      BY <1>6, <1>7
    <3> QED
      BY <1>2, <1>7, <2>1, <2>3, <3>1 DEF Increasing
  <2> QED
    BY <2>2, <2>3
<1>14. NotAhead(list)'
  BY <1>1, <1>4, <1>5, <1>7, <1>12 DEF NotAhead
<1>15. Honest(list)'
  <2> SUFFICES ASSUME NEW i \in 1..Len(list)
               PROVE  /\ list[i].id \in DOMAIN truth'
                      /\ list[i].outcome = "success" => truth'[list[i].id] = "success"
                      /\ list[i].outcome = "failure" => truth'[list[i].id] \in {"failure", "unspoken"}
    BY DEF Honest
  <2>1. CASE i = Len(list)
    BY <1>5, <1>7, <1>9, <2>1
  <2>2. CASE i # Len(list)
    <3>1. i + drop \in 1..Len(entries) /\ list[i] = entries[i + drop]
      BY <1>7, <2>2
    <3>2. entries[i + drop].id # id
      BY <1>4, <1>8, <1>11, <3>1
    <3> QED
      BY <1>2, <1>9, <3>1, <3>2 DEF Honest
  <2> QED
    BY <2>1, <2>2
<1>16. ListIsSound(list)'
  BY <1>6, <1>13, <1>14, <1>15 DEF ListIsSound
<1>17. /\ saves' \in Seq(Entries)
       /\ {saves'[i] : i \in 1..Len(saves')} \subseteq Lists \cup {list}
       /\ RefusedIsKept'
  BY <1>1, <1>6, SaveIs
<1>18. \A l \in Lists' : ListIsSound(l)'
  <2>1. Lists' \subseteq Lists \cup {list}
    BY <1>1, <1>17 DEF Lists
  <2> QED
    BY <1>10, <1>16, <2>1
<1>19. LogTypes'
  BY <1>1, <1>4, <1>17 DEF LogInvariant, LogTypes, OpRecords, Submitted
<1>20. NewestRuns'
  <2>1. \A i \in 1..Len(list) : i # Len(list) => list[i].outcome # "running"
    BY <1>1, <1>7 DEF LogInvariant, NewestRuns
  <2>2. op' # NoOp /\ op'.stage = "submitted" /\ op'.id = id
    BY <1>1 DEF NoOp, Submitted
  <2>3. list[Len(list)] = [id |-> id, outcome |-> "running"]
    BY <1>7 DEF entry
  <2> QED
    BY <1>1, <1>7, <2>1, <2>2, <2>3 DEF NewestRuns
<1>21. TruthFollows'
  BY <1>1, <1>9 DEF TruthFollows, Submitted
<1>22. SuccessIsListed'
  <2> SUFFICES ASSUME kills = 0, NEW i \in 1..Len(list), truth'[list[i].id] = "success"
               PROVE  list[i].outcome \in {"running", "success"}
    BY <1>1 DEF SuccessIsListed
  <2>1. CASE i = Len(list)
    BY <1>5, <1>7, <2>1
  <2>2. CASE i # Len(list)
    <3>1. i + drop \in 1..Len(entries) /\ list[i] = entries[i + drop]
      BY <1>7, <2>2
    <3>2. entries[i + drop].id # id /\ entries[i + drop].id \in DOMAIN truth
      BY <1>2, <1>4, <1>8, <1>11, <3>1 DEF Honest
    <3> QED
      BY <1>9, <3>1, <3>2 DEF LogInvariant, SuccessIsListed
  <2> QED
    BY <2>1, <2>2
<1> QED
  BY <1>17, <1>18, <1>19, <1>20, <1>21, <1>22 DEF LogInvariant

\* The operation in flight has the newest entry, and only that one.
LEMMA InFlight ==
  ASSUME LogInvariant, op.stage # "none"
  PROVE  /\ op # NoOp
         /\ Len(entries) \in 1..Len(entries)
         /\ entries[Len(entries)] = [id |-> op.id, outcome |-> "running"]
         /\ op.id \in DOMAIN truth
         /\ \A i \in 1..Len(entries) : entries[i].id = op.id => i = Len(entries)
<1>1. op # NoOp
  BY DEF NoOp
<1>2. entries # <<>> /\ entries[Len(entries)] = [id |-> op.id, outcome |-> "running"]
  BY <1>1 DEF LogInvariant, NewestRuns
<1>3. entries \in Entries /\ Increasing(entries) /\ Honest(entries)
  BY DEF LogInvariant, Lists, ListIsSound
<1>4. Len(entries) \in 1..Len(entries)
  BY <1>2, <1>3, EntriesAre
<1>5. op.id \in DOMAIN truth
  BY <1>2, <1>3, <1>4 DEF Honest
<1>6. ASSUME NEW i \in 1..Len(entries), entries[i].id = op.id
      PROVE  i = Len(entries)
  <2>1. i \in Nat /\ Len(entries) \in Nat /\ i <= Len(entries) /\ entries[i].id \in Nat
    BY <1>3, EntriesAre
  <2>2. ~(i < Len(entries))
    BY <1>2, <1>3, <1>4, <1>6, <2>1 DEF Increasing
  <2> QED
    BY <2>1, <2>2
<1> QED
  BY <1>1, <1>2, <1>4, <1>5, <1>6

LEMMA CancelStep ==
  ASSUME LogInvariant, Cancel
  PROVE  LogInvariant'
<1>1. /\ op.stage # "none" /\ op' = [op EXCEPT !.cancelled = TRUE]
      /\ UNCHANGED <<entries, error, disk, saves, truth, kills>>
  BY DEF Cancel
<1>2. /\ op' \in OpRecords
      /\ op'.id = op.id /\ op'.stage = op.stage /\ op'.doubt = op.doubt
  BY <1>1 DEF LogInvariant, LogTypes, OpRecords
<1>3. op' # NoOp /\ op # NoOp
  BY <1>1, <1>2 DEF NoOp
<1>4. Lists' \subseteq Lists
  BY <1>1 DEF Lists
<1>5. (\A list \in Lists : ListIsSound(list))'
  BY <1>1, <1>4, SameLists DEF LogInvariant
<1>6. NewestRuns'
  BY <1>1, <1>2, <1>3 DEF LogInvariant, NewestRuns
<1>7. TruthFollows'
  BY <1>1, <1>2 DEF LogInvariant, TruthFollows
<1>8. LogTypes' /\ SuccessIsListed' /\ RefusedIsKept'
  BY <1>1, <1>2 DEF LogInvariant, LogTypes, SuccessIsListed, RefusedIsKept
<1> QED
  BY <1>5, <1>6, <1>7, <1>8 DEF LogInvariant

\* What becomes of the operation changes while no list claims anything of it.
LEMMA NothingIsClaimed ==
  ASSUME LogInvariant, op.stage = "submitted",
         NEW result \in Ends,
         truth' = [truth EXCEPT ![op.id] = result], UNCHANGED entries
  PROVE  \A list \in Lists : ListIsSound(list)'
<1>1. op.id \in DOMAIN truth /\ truth[op.id] = "none"
  BY InFlight DEF LogInvariant, TruthFollows
<1>2. /\ DOMAIN truth' = DOMAIN truth
      /\ \A i \in DOMAIN truth : i # op.id => truth'[i] = truth[i]
  BY DEF LogInvariant, TruthFollows
<1>3. ASSUME NEW list \in Lists
      PROVE  Honest(list)'
  <2>1. Honest(list)
    BY DEF LogInvariant, ListIsSound
  <2> QED
    BY <1>1, <1>2, <2>1 DEF Honest
<1> QED
  BY <1>3 DEF LogInvariant, ListIsSound, NotAhead

LEMMA RunStep ==
  ASSUME LogInvariant, Run
  PROVE  LogInvariant'
<1> PICK result \in Ends, doubt \in BOOLEAN :
      /\ truth' = [truth EXCEPT ![op.id] = result] /\ (result = "unknown" => doubt)
      /\ op' = [op EXCEPT !.stage = "ran", !.doubt = doubt]
  <2> PICK ending \in Endings :
        LET doubt == ending.words \in Words[op.kind]
        IN /\ truth' = [truth EXCEPT ![op.id] =
                           IF ending.result = "unknown" /\ ~doubt THEN "unspoken"
                           ELSE ending.result]
           /\ op' = [op EXCEPT !.stage = "ran", !.doubt = doubt]
    BY DEF Run
  <2> DEFINE doubt == ending.words \in Words[op.kind]
             result == IF ending.result = "unknown" /\ ~doubt THEN "unspoken"
                       ELSE ending.result
  <2>1. ending.result \in {"success", "failure", "unknown"}
    BY DEF Endings
  <2>2. doubt \in BOOLEAN /\ result \in Ends /\ (result = "unknown" => doubt)
    BY <2>1 DEF Ends
  <2>3. /\ truth' = [truth EXCEPT ![op.id] = result]
        /\ op' = [op EXCEPT !.stage = "ran", !.doubt = doubt]
    OBVIOUS
  <2> HIDE DEF doubt, result
  <2> QED
    BY <2>2, <2>3
<1>1. op.stage = "submitted" /\ UNCHANGED <<entries, error, disk, saves, kills>>
  BY DEF Run
<1>2. /\ op' \in OpRecords
      /\ op'.id = op.id /\ op'.stage = "ran" /\ op'.doubt = doubt
  BY <1>1 DEF LogInvariant, LogTypes, OpRecords
<1>3. op' # NoOp
  BY <1>2 DEF NoOp
<1>4. op.id \in DOMAIN truth /\ op # NoOp
  BY <1>1, InFlight
<1>5. /\ truth' \in [DOMAIN truth' -> {"none"} \cup Ends]
      /\ truth'[op.id] = result /\ result # "none"
      /\ \A i \in DOMAIN truth : i # op.id => truth'[i] = truth[i]
  BY <1>4 DEF LogInvariant, TruthFollows, Ends
<1>6. (\A list \in Lists : ListIsSound(list))'
  <2>1. Lists' = Lists
    BY <1>1 DEF Lists
  <2> QED
    BY <1>1, <2>1, NothingIsClaimed
<1>7. NewestRuns'
  BY <1>1, <1>2, <1>3, <1>4 DEF LogInvariant, NewestRuns
<1>8. TruthFollows'
  BY <1>2, <1>5 DEF TruthFollows
<1>9. SuccessIsListed'
  <2> SUFFICES ASSUME kills = 0, NEW i \in 1..Len(entries), truth'[entries[i].id] = "success"
               PROVE  entries[i].outcome \in {"running", "success"}
    BY <1>1 DEF SuccessIsListed
  <2>1. CASE entries[i].id = op.id
    BY <1>1, <2>1, InFlight
  <2>2. CASE entries[i].id # op.id
    <3>1. entries[i].id \in DOMAIN truth
      BY DEF LogInvariant, Lists, ListIsSound, Honest
    <3> QED
      BY <1>5, <2>2, <3>1 DEF LogInvariant, SuccessIsListed
  <2> QED
    BY <2>1, <2>2
<1>10. LogTypes' /\ RefusedIsKept'
  BY <1>1, <1>2 DEF LogInvariant, LogTypes, RefusedIsKept
<1> QED
  BY <1>6, <1>7, <1>8, <1>9, <1>10 DEF LogInvariant

\* The entry of the operation gets the outcome Git had.
LEMMA LogFinishStep ==
  ASSUME LogInvariant, ActivityLogAssumption, Finish
  PROVE  LogInvariant'
<1> DEFINE outcome == Outcome(truth[op.id], op.cancelled, op.doubt)
<1> PICK list : list = [i \in 1..Len(entries) |->
                          IF entries[i].id = op.id THEN [entries[i] EXCEPT !.outcome = outcome]
                          ELSE entries[i]]
  OBVIOUS
<1>1. /\ op.stage = "ran" /\ entries' = list /\ Save(list) /\ op' = NoOp
      /\ UNCHANGED <<error, disk, truth, kills>>
  BY DEF Finish
<1>2. /\ entries \in Entries /\ Increasing(entries) /\ Honest(entries) /\ NotAhead(entries)
  BY DEF LogInvariant, Lists, ListIsSound
<1>3. /\ Len(entries) \in Nat /\ Len(entries) <= Limit
      /\ \A i \in 1..Len(entries) : entries[i] \in EntryRecords /\ entries[i].id \in Nat
  BY <1>2, EntriesAre
<1>4. /\ outcome \in Outcomes \ {"running"}
      /\ outcome = "success" <=> truth[op.id] = "success"
      /\ outcome = "failure" => truth[op.id] \in {"failure", "unspoken"}
  <2>1. truth[op.id] \in Ends /\ (truth[op.id] = "unknown" => op.doubt)
    BY <1>1, InFlight DEF LogInvariant, TruthFollows
  <2> QED
    BY <2>1 DEF Outcome, Outcomes, Ends
<1> HIDE DEF outcome
<1>5. \A i \in 1..Len(entries) :
        /\ list[i] \in EntryRecords
        /\ list[i].id = entries[i].id
        /\ entries[i].id = op.id => list[i].outcome = outcome
        /\ entries[i].id # op.id => list[i] = entries[i]
  BY <1>3, <1>4 DEF EntryRecords
<1>6. list \in Seq(EntryRecords) /\ Len(list) = Len(entries)
  <2>1. list \in [1..Len(entries) -> EntryRecords]
    BY <1>5
  <2>2. list \in Seq(EntryRecords)
    BY <1>3, <2>1, SeqDef
  <2> QED
    BY <1>3, <2>1, <2>2, LenProperties
<1>7. list \in Entries /\ list # <<>>
  <2>1. list \in Entries
    BY <1>3, <1>6 DEF Entries, EntryRecords
  <2>2. Len(list) # 0
    BY <1>1, <1>3, <1>6, InFlight
  <2> QED
    BY <2>1, <2>2, EntriesAre
<1>8. Len(entries) \in 1..Len(entries) /\ list[Len(list)].id = entries[Len(entries)].id
  BY <1>1, <1>5, <1>6, InFlight
<1>9. Increasing(list)
  BY <1>2, <1>5, <1>6 DEF Increasing
<1>10. ASSUME NEW old, ListIsSound(old)
       PROVE  ListIsSound(old)'
  <2>1. NotAhead(old)'
    BY <1>1, <1>7, <1>8, <1>10 DEF ListIsSound, NotAhead
  <2>2. Honest(old)'
    BY <1>1, <1>10 DEF ListIsSound, Honest
  <2> QED
    BY <1>10, <2>1, <2>2 DEF ListIsSound
<1>11. NotAhead(list)'
  BY <1>1, <1>2, <1>5, <1>6, <1>7, <1>8 DEF NotAhead
<1>12. Honest(list)'
  <2> SUFFICES ASSUME NEW i \in 1..Len(entries)
               PROVE  /\ list[i].id \in DOMAIN truth
                      /\ list[i].outcome = "success" => truth[list[i].id] = "success"
                      /\ list[i].outcome = "failure" => truth[list[i].id] \in {"failure", "unspoken"}
    BY <1>1, <1>6 DEF Honest
  <2>1. CASE entries[i].id = op.id
    BY <1>2, <1>4, <1>5, <2>1 DEF Honest
  <2>2. CASE entries[i].id # op.id
    BY <1>2, <1>5, <2>2 DEF Honest
  <2> QED
    BY <2>1, <2>2
<1>13. ListIsSound(list)'
  BY <1>7, <1>9, <1>11, <1>12 DEF ListIsSound
<1>14. /\ saves' \in Seq(Entries)
       /\ {saves'[i] : i \in 1..Len(saves')} \subseteq Lists \cup {list}
       /\ RefusedIsKept'
  BY <1>1, <1>7, SaveIs
<1>15. (\A l \in Lists : ListIsSound(l))'
  <2>1. Lists' \subseteq Lists \cup {list}
    BY <1>1, <1>14 DEF Lists
  <2> QED
    BY <1>10, <1>13, <2>1 DEF LogInvariant
<1>16. LogTypes'
  BY <1>1, <1>14 DEF LogInvariant, LogTypes, NoOp, OpRecords, Words
<1>17. NewestRuns'
  <2> SUFFICES ASSUME NEW i \in 1..Len(entries)
               PROVE  list[i].outcome # "running"
    BY <1>1, <1>6 DEF NewestRuns
  <2>1. CASE entries[i].id = op.id
    BY <1>4, <1>5, <2>1
  <2>2. CASE entries[i].id # op.id
    <3>1. i # Len(entries)
      BY <1>1, <2>2, InFlight
    <3> QED
      BY <1>5, <2>2, <3>1 DEF LogInvariant, NewestRuns
  <2> QED
    BY <2>1, <2>2
<1>18. TruthFollows'
  BY <1>1 DEF LogInvariant, TruthFollows, NoOp
<1>19. SuccessIsListed'
  <2> SUFFICES ASSUME kills = 0, NEW i \in 1..Len(entries), truth[list[i].id] = "success"
               PROVE  list[i].outcome \in {"running", "success"}
    BY <1>1, <1>6 DEF SuccessIsListed
  <2>1. CASE entries[i].id = op.id
    BY <1>4, <1>5, <2>1
  <2>2. CASE entries[i].id # op.id
    BY <1>5, <2>2 DEF LogInvariant, SuccessIsListed
  <2> QED
    BY <2>1, <2>2
<1> QED
  BY <1>14, <1>15, <1>16, <1>17, <1>18, <1>19 DEF LogInvariant

\* The executor's queue moves up by one list.
LEMMA QueueMoves ==
  ASSUME LogInvariant, saves # <<>>
  PROVE  /\ Tail(saves) \in Seq(Entries) /\ Head(saves) \in Entries
         /\ Head(saves) \in Lists
         /\ {Tail(saves)[i] : i \in 1..Len(Tail(saves))} \subseteq Lists
         /\ disk # Refused
<1>1. saves \in Seq(Entries)
  BY DEF LogInvariant, LogTypes
<1>2. /\ Head(saves) = saves[1] /\ 1 \in 1..Len(saves)
      /\ Head(saves) \in Entries
      /\ Tail(saves) \in Seq(Entries)
      /\ \A i \in 1..Len(Tail(saves)) : i + 1 \in 1..Len(saves) /\ Tail(saves)[i] = saves[i + 1]
  <2>1. /\ Tail(saves) \in Seq(Entries) /\ Len(Tail(saves)) = Len(saves) - 1
        /\ \A i \in 1..Len(Tail(saves)) : Tail(saves)[i] = saves[i + 1]
    BY <1>1, HeadTailProperties
  <2>2. Len(saves) \in Nat /\ Len(saves) # 0
    BY <1>1, EmptySeq, LenProperties
  <2>3. Head(saves) = saves[1] /\ 1 \in 1..Len(saves)
    BY <1>1, <2>2, HeadTailProperties
  <2>4. Head(saves) \in Entries
    BY <1>1, <2>3, ElementOfSeq
  <2> QED
    BY <2>1, <2>2, <2>3, <2>4
<1>3. disk # Refused
  BY DEF LogInvariant, RefusedIsKept
<1> QED
  BY <1>2, <1>3 DEF Lists

\* The file is replaced by a list that was shown.
LEMMA WriteLogStep ==
  ASSUME LogInvariant, WriteLog
  PROVE  LogInvariant'
<1>1. /\ saves # <<>> /\ disk' = File(Head(saves)) /\ saves' = Tail(saves)
      /\ UNCHANGED <<entries, error, op, truth, kills>>
  BY DEF WriteLog
<1>2. /\ disk'.list = Head(saves) /\ disk'.kind = "list"
      /\ disk' \in [kind : {"absent", "refused", "list"}, list : Entries]
  BY <1>1, QueueMoves DEF File
<1>3. Lists' \subseteq Lists
  BY <1>1, <1>2, QueueMoves DEF Lists
<1>4. (\A list \in Lists : ListIsSound(list))'
  BY <1>1, <1>3, SameLists DEF LogInvariant
<1>5. LogTypes'
  BY <1>1, <1>2, QueueMoves DEF LogInvariant, LogTypes
<1>6. RefusedIsKept'
  BY <1>2 DEF RefusedIsKept, Refused
<1>7. NewestRuns' /\ TruthFollows' /\ SuccessIsListed'
  BY <1>1 DEF LogInvariant, NewestRuns, TruthFollows, SuccessIsListed
<1> QED
  BY <1>4, <1>5, <1>6, <1>7 DEF LogInvariant

LEMMA WriteLogFailsStep ==
  ASSUME LogInvariant, WriteLogFails
  PROVE  LogInvariant'
<1>1. /\ saves # <<>> /\ saves' = Tail(saves) /\ error' = "unsaved"
      /\ UNCHANGED <<entries, disk, op, truth, kills>>
  BY DEF WriteLogFails
<1>2. Lists' \subseteq Lists
  BY <1>1, QueueMoves DEF Lists
<1>3. (\A list \in Lists : ListIsSound(list))'
  BY <1>1, <1>2, SameLists DEF LogInvariant
<1>4. LogTypes'
  BY <1>1, QueueMoves DEF LogInvariant, LogTypes
<1>5. RefusedIsKept'
  BY <1>1, QueueMoves DEF RefusedIsKept
<1>6. NewestRuns' /\ TruthFollows' /\ SuccessIsListed'
  BY <1>1 DEF LogInvariant, NewestRuns, TruthFollows, SuccessIsListed
<1> QED
  BY <1>3, <1>4, <1>5, <1>6 DEF LogInvariant

\* After a restart the list is the file's, with nothing in progress.
LEMMA RestartStep ==
  ASSUME LogInvariant, ActivityLogAssumption, Restart
  PROVE  LogInvariant'
<1>1. /\ error' = IF disk.kind = "refused" THEN "unavailable" ELSE "none"
      /\ saves' = <<>> /\ op' = NoOp /\ kills' = kills + 1 /\ disk' = disk
      /\ disk \in [kind : {"absent", "refused", "list"}, list : Entries]
  BY DEF Restart, LogInvariant, LogTypes
<1> PICK list : list = disk.list
  OBVIOUS
<1>2. list \in Lists /\ ListIsSound(list) /\ list \in Entries
  BY DEF Lists, LogInvariant, ListIsSound
<1>3. /\ entries' \in Entries /\ Len(entries') = Len(list)
      /\ \A i \in 1..Len(list) :
           /\ entries'[i].id = list[i].id
           /\ entries'[i].outcome =
                IF list[i].outcome = "running" THEN "uncertain" ELSE list[i].outcome
  <2>1. CASE disk.kind = "list"
    BY <1>2, <2>1, LoadedIs DEF Restart
  <2>2. CASE disk.kind # "list"
    <3>1. entries' = <<>> /\ list = <<>>
      BY <2>2 DEF Restart, LogInvariant, LogTypes
    <3>2. Len(list) = 0
      BY <1>2, <3>1, EntriesAre
    <3> QED
      BY <1>2, <3>1, <3>2
  <2> QED
    BY <2>1, <2>2
<1>4. truth' = truth \/ (op.stage = "submitted" /\ truth' = [truth EXCEPT ![op.id] = "unknown"])
  BY DEF Restart
<1>5. Honest(list)'
  <2>1. CASE truth' = truth
    BY <1>2, <2>1 DEF ListIsSound, Honest
  <2>2. CASE op.stage = "submitted" /\ truth' = [truth EXCEPT ![op.id] = "unknown"]
    <3>1. op.id \in DOMAIN truth /\ truth[op.id] = "none"
      BY <2>2, InFlight DEF LogInvariant, TruthFollows
    <3>2. DOMAIN truth' = DOMAIN truth /\ \A i \in DOMAIN truth : i # op.id => truth'[i] = truth[i]
      BY <2>2 DEF LogInvariant, TruthFollows
    <3> QED
      BY <1>2, <3>1, <3>2 DEF ListIsSound, Honest
  <2> QED
    BY <1>4, <2>1, <2>2
<1>6. truth' \in [DOMAIN truth' -> {"none"} \cup Ends]
  BY <1>4 DEF LogInvariant, TruthFollows, Ends
<1>7. /\ Len(list) \in Nat /\ (entries' = <<>> <=> Len(list) = 0)
      /\ \A i \in 1..Len(list) : list[i].id \in Nat
  BY <1>2, <1>3, EntriesAre
<1>8. NotAhead(list)'
  <2> SUFFICES ASSUME NEW i \in 1..Len(list)
               PROVE  entries' # <<>> /\ list[i].id <= entries'[Len(entries')].id
    BY DEF NotAhead
  <2>1. Len(list) \in 1..Len(list) /\ entries' # <<>>
    BY <1>7
  <2>2. list[i].id <= list[Len(list)].id
    <3>1. CASE i = Len(list)
      BY <1>7, <3>1
    <3>2. CASE i # Len(list)
      BY <1>2, <1>7, <2>1, <3>2 DEF ListIsSound, Increasing
    <3> QED
      BY <3>1, <3>2
  <2> QED
    BY <1>3, <2>1, <2>2
<1> PICK shown : shown = entries'
  OBVIOUS
<1>9. Increasing(shown)
  BY <1>2, <1>3 DEF ListIsSound, Increasing
<1>10. NotAhead(shown)'
  BY <1>3, <1>8 DEF NotAhead
<1>11. Honest(shown)'
  BY <1>3, <1>5 DEF Honest
<1>12. ListIsSound(shown)' /\ ListIsSound(list)'
  BY <1>2, <1>3, <1>5, <1>8, <1>9, <1>10, <1>11 DEF ListIsSound
<1>13. (\A l \in Lists : ListIsSound(l))'
  <2>1. Lists' \subseteq {shown, list}
    BY <1>1 DEF Lists
  <2> QED
    BY <1>12, <2>1
<1>14. LogTypes'
  BY <1>1 DEF LogInvariant, LogTypes, NoOp, OpRecords, Words
<1>15. NewestRuns'
  BY <1>1, <1>3 DEF NewestRuns
<1>16. TruthFollows'
  BY <1>1, <1>6 DEF TruthFollows, NoOp
<1>17. SuccessIsListed'
  BY <1>1 DEF LogInvariant, LogTypes, SuccessIsListed
<1>18. RefusedIsKept'
  BY <1>1 DEF RefusedIsKept, Refused
<1> QED
  BY <1>13, <1>14, <1>15, <1>16, <1>17, <1>18 DEF LogInvariant

\* The log starts empty, with a file that can be read or is kept away from.
LEMMA LogStarts ==
  ASSUME LogInit, ActivityLogAssumption
  PROVE  LogInvariant
<1>1. /\ disk \in {Absent, Refused, File(<<>>)} /\ entries = <<>> /\ saves = <<>> /\ op = NoOp
      /\ error = (IF disk = Refused THEN "unavailable" ELSE "none")
      /\ truth = <<>> /\ kills = 0
  BY DEF LogInit
<1>2. <<>> \in Entries /\ Len(<<>>) = 0
  BY DEF Entries, ActivityLogAssumption
<1>3. /\ disk \in [kind : {"absent", "refused", "list"}, list : Entries]
      /\ disk.list = <<>>
  BY <1>1, <1>2 DEF Absent, Refused, File
<1>4. Lists = {<<>>}
  BY <1>1, <1>2, <1>3 DEF Lists
<1>5. ListIsSound(<<>>)
  BY <1>2 DEF ListIsSound, Increasing, NotAhead, Honest
<1>6. LogTypes
  BY <1>1, <1>3 DEF LogTypes, NoOp, OpRecords, Words
<1>7. NewestRuns /\ TruthFollows /\ SuccessIsListed /\ RefusedIsKept
  BY <1>1, <1>2 DEF NewestRuns, TruthFollows, SuccessIsListed, RefusedIsKept, NoOp
<1> QED
  BY <1>4, <1>5, <1>6, <1>7 DEF LogInvariant

(***************************************************************************)
(* The log tells the truth: entries keep increasing numbers, only the      *)
(* operation in flight is shown as running, no list - shown, saved or      *)
(* handed to the executor - claims a success Git did not report or calls a *)
(* failure what succeeded or was known to be in doubt, and a file that was *)
(* not understood is left alone, for every limit, clock, number of         *)
(* operations and number of restarts (State::begin, finish, read and       *)
(* save_activity).                                                         *)
(***************************************************************************)
THEOREM LogTellsTheTruth == ASSUME ActivityLogAssumption PROVE LogSpec => []LogIsTrue
<1>1. LogInit => LogInvariant
  BY LogStarts
<1>2. LogInvariant /\ [LogNext]_logVars => LogInvariant'
  <2> SUFFICES ASSUME LogInvariant, [LogNext]_logVars
               PROVE  LogInvariant'
    OBVIOUS
  <2>1. CASE UNCHANGED logVars
    <3>1. Lists' = Lists /\ UNCHANGED <<entries, error, disk, saves, op, truth, kills>>
      BY <2>1 DEF Lists, logVars
    <3>2. (\A list \in Lists : ListIsSound(list))'
      BY <3>1, SameLists DEF LogInvariant
    <3> QED
      BY <3>1, <3>2 DEF LogInvariant, LogTypes, NewestRuns, TruthFollows, SuccessIsListed,
         RefusedIsKept
  <2> QED
    BY <2>1, BeginEntryStep, CancelStep, RunStep, LogFinishStep, WriteLogStep,
       WriteLogFailsStep, RestartStep DEF LogNext
<1>3. LogInvariant => LogIsTrue
  BY SoundLogIsTrue
<1> QED
  BY <1>1, <1>2, <1>3, PTL DEF LogSpec
-----------------------------------------------------------------------------
(* The preferences: the sections of a file.                                *)

\* The first elements of a sequence.
LEMMA FirstOfIs ==
  ASSUME NEW S, NEW s \in Seq(S), NEW n \in Nat
  PROVE  /\ FirstOf(s, n) \in Seq(S) /\ Len(FirstOf(s, n)) <= n
         /\ Len(s) <= n => FirstOf(s, n) = s
         /\ n # 0 /\ s # <<>> => FirstOf(s, n) # <<>> /\ Head(FirstOf(s, n)) = Head(s)
<1> PICK last : last = IF Len(s) < n THEN Len(s) ELSE n
  OBVIOUS
<1>1. Len(s) \in Nat /\ last \in 0..Len(s) /\ last <= n /\ FirstOf(s, n) = SubSeq(s, 1, last)
  BY DEF FirstOf
<1>2. \A i \in 1..last : i \in 1..Len(s)
  BY <1>1
<1>3. /\ SubSeq(s, 1, last) \in Seq(S) /\ Len(SubSeq(s, 1, last)) = last
      /\ \A i \in 1..last : SubSeq(s, 1, last)[i] = s[i]
  <2>1. SubSeq(s, 1, last) \in Seq(S)
    BY <1>1, <1>2, SubSeqProperties
  <2>2. Len(SubSeq(s, 1, last)) = last
    BY <1>1, <1>2, SubSeqProperties
  <2>3. \A i \in 1..last : SubSeq(s, 1, last)[i] = s[i]
    BY <1>1, <1>2, SubSeqProperties
  <2> QED
    BY <2>1, <2>2, <2>3
<1>4. ASSUME Len(s) <= n
      PROVE  FirstOf(s, n) = s
  BY <1>1, <1>4, SubSeqFull
<1>5. ASSUME n # 0, s # <<>>
      PROVE  FirstOf(s, n) # <<>> /\ Head(FirstOf(s, n)) = Head(s)
  <2>1. last # 0 /\ 1 \in 1..last
    BY <1>1, <1>5, EmptySeq
  <2>2. FirstOf(s, n) # <<>>
    BY <1>1, <1>3, <2>1, EmptySeq
  <2>3. Head(FirstOf(s, n)) = FirstOf(s, n)[1] /\ Head(s) = s[1]
    BY <1>1, <1>3, <1>5, <2>2, HeadTailProperties
  <2> QED
    BY <1>1, <1>3, <2>1, <2>2, <2>3
<1> QED
  BY <1>1, <1>3, <1>4, <1>5

\* A set of numbers has a least one.
LEMMA LeastIsMember ==
  ASSUME NEW S \in SUBSET Nat, S # {}
  PROVE  Min(S) \in S
<1> DEFINE below == {pair \in Nat \X Nat : pair[1] < pair[2]}
<1>1. PICK x \in S : \A y \in S : ~(<<y, x>> \in below)
  <2>1. OpToRel(<, Nat) = below
    BY DEF OpToRel
  <2>2. IsWellFoundedOn(below, Nat)
    BY <2>1, NatLessThanWellFounded
  <2> QED
    BY <2>2, WFMin
<1>2. ASSUME NEW y \in S
      PROVE  x <= y
  <2>1. x \in Nat /\ y \in Nat /\ <<y, x>> \in Nat \X Nat
    OBVIOUS
  <2>2. ~(y < x)
    BY <1>1, <2>1
  <2> QED
    BY <2>1, <2>2
<1> QED
  BY <1>2 DEF Min

\* What is left of a list without its first occurrence of an element.
LEMMA RemoveFirstIs ==
  ASSUME NEW S, NEW s \in Seq(S), NEW e
  PROVE  RemoveFirst(s, e) \in Seq(S)
<1>1. CASE \E i \in 1..Len(s) : s[i] = e
  <2> DEFINE I == {i \in 1..Len(s) : s[i] = e}
             at == SelectInSeq(s, LAMBDA v : v = e)
  <2>1. at = Min(I) /\ I # {} /\ I \in SUBSET Nat
    BY <1>1 DEF SelectInSeq
  <2>2. at \in 1..Len(s) /\ Len(s) \in Nat
    <3>1. Min(I) \in I
      BY <2>1, LeastIsMember
    <3> QED
      BY <2>1, <3>1
  <2>3. RemoveFirst(s, e) = SubSeq(s, 1, at - 1) \o SubSeq(s, at + 1, Len(s))
    BY <1>1 DEF RemoveFirst, RemoveAt
  <2> HIDE DEF at
  <2>4. SubSeq(s, 1, at - 1) \in Seq(S)
    BY <2>2, SubSeqProperties
  <2>5. SubSeq(s, at + 1, Len(s)) \in Seq(S)
    BY <2>2, SubSeqProperties
  <2> QED
    BY <2>3, <2>4, <2>5, ConcatProperties
<1>2. CASE ~\E i \in 1..Len(s) : s[i] = e
  BY <1>2 DEF RemoveFirst
<1> QED
  BY <1>1, <1>2

\* What the program finds is of this version, and no longer than it keeps.
LEMMA LoadIs ==
  ASSUME StoreAssumption, NEW f, f.content \in StoredPreferences
  PROVE  /\ Load(f) \in StoredPreferences /\ Load(f).version = StoreVersion
         /\ NamesAreValid(Load(f).names) /\ ThemesAreValid(Load(f).themes)
         /\ Len(Load(f).recents) <= MaxRecent
<1>1. CASE Accepted(f)
  <2> DEFINE recents == FirstOf(f.content.recents, MaxRecent)
  <2>1. recents \in Seq(Projects) /\ Len(recents) <= MaxRecent
    BY FirstOfIs DEF StoreAssumption, StoredPreferences
  <2> HIDE DEF recents
  <2>2. ToSet(recents) \subseteq Projects
    BY <2>1 DEF ToSet
  <2>3. Load(f) = Parse(f.content)
    BY <1>1 DEF Load
  <2>4. /\ Parse(f.content) \in StoredPreferences
        /\ Parse(f.content).version = StoreVersion
        /\ Parse(f.content).recents = recents
        /\ Parse(f.content).names = f.content.names
        /\ Parse(f.content).themes = f.content.themes
    BY <2>1, <2>2 DEF Parse, StoredPreferences, StoreVersion, recents
  <2> QED
    BY <1>1, <2>1, <2>3, <2>4 DEF Accepted
<1>2. CASE ~Accepted(f)
  <2>1. Load(f) = Empty
    BY <1>2 DEF Load
  <2>2. Empty \in StoredPreferences
    BY DEF Empty, StoredPreferences, StoreAssumption, StoreVersion
  <2>3. Named(Empty.names) = {} /\ Empty.themes = {}
    BY DEF Named, Empty
  <2>4. Cardinality({}) = 0
    BY FS_EmptySet
  <2>5. NamesAreValid(Empty.names) /\ ThemesAreValid(Empty.themes)
    BY <2>3, <2>4 DEF NamesAreValid, ThemesAreValid, StoreAssumption
  <2>6. Empty.version = StoreVersion /\ Len(Empty.recents) <= MaxRecent
    BY DEF Empty, StoreAssumption
  <2> QED
    BY <2>1, <2>2, <2>5, <2>6
<1> QED
  BY <1>1, <1>2

\* A file of this version is found as it was written.
LEMMA WrittenIsFound ==
  ASSUME StoreAssumption, NEW content \in StoredPreferences, content.version = StoreVersion,
         NamesAreValid(content.names), ThemesAreValid(content.themes)
  PROVE  /\ Accepted(Store(content))
         /\ Load(Store(content)).recents = FirstOf(content.recents, MaxRecent)
         /\ \A s \in Sections \ {"recents"} : Load(Store(content))[s] = content[s]
<1>1. Accepted(Store(content))
  BY DEF Accepted, Store, StoreVersion
<1>2. Load(Store(content)) = Parse(content)
  BY <1>1 DEF Load, Store
<1> PICK recents : recents = FirstOf(content.recents, MaxRecent)
  OBVIOUS
<1>3. Parse(content) = [content EXCEPT !.version = StoreVersion, !.recents = recents,
                                       !.library = content.library]
  BY DEF Parse, StoreVersion, ListVersion
<1>4. /\ Parse(content).recents = recents
      /\ \A s \in Sections \ {"recents"} : Parse(content)[s] = content[s]
  BY <1>3 DEF StoredPreferences, Sections
<1> QED
  BY <1>1, <1>2, <1>4

\* Each writer puts its section in place, and keeps the rest.
LEMMA PutIs ==
  ASSUME StoreAssumption, NEW save \in Saves, NEW old \in StoredPreferences
  PROVE  /\ Put(save, old) \in StoredPreferences
         /\ Put(save, old).version = old.version
         /\ \A s \in Sections \ Touches(save) : Put(save, old)[s] = old[s]
         /\ save.kind = "name" => Put(save, old).names = [old.names EXCEPT ![save.path] = save.name]
         /\ save.kind = "library" => Put(save, old).library = save.library
         /\ save.kind = "remember" => Put(save, old).recents = Remembered(save.path, old.recents)
         /\ save.kind = "drafts" => Put(save, old).drafts[save.path] = save.draft
         /\ save.kind = "themes" => Put(save, old).themes = save.themes
<1>1. CASE save.kind = "remember"
  <2>1. save.path \in Projects
    BY <1>1 DEF Saves
  <2>2. RemoveFirst(old.recents, save.path) \in Seq(Projects)
    BY RemoveFirstIs DEF StoredPreferences
  <2>3. FirstOf(RemoveFirst(old.recents, save.path), MaxRecent - 1) \in Seq(Projects)
    BY <2>2, FirstOfIs DEF StoreAssumption
  <2>4. Remembered(save.path, old.recents) \in Seq(Projects)
    BY <2>1, <2>3, ConcatProperties DEF Remembered
  <2>5. Put(save, old) = [old EXCEPT !.recents = Remembered(save.path, old.recents),
                                     !.library = old.library \cup {save.path}]
    BY <1>1 DEF Put
  <2> PICK recents : recents = Remembered(save.path, old.recents)
    OBVIOUS
  <2>6. old.library \cup {save.path} \in SUBSET Projects
    BY <2>1 DEF StoredPreferences
  <2>7. /\ Put(save, old) \in StoredPreferences
        /\ Put(save, old).version = old.version /\ Put(save, old).recents = recents
    BY <2>4, <2>5, <2>6 DEF StoredPreferences
  <2>8. \A s \in Sections \ {"recents", "library"} : Put(save, old)[s] = old[s]
    BY <2>5 DEF StoredPreferences, Sections
  <2>9. Touches(save) = {"recents", "library"}
    BY <1>1 DEF Touches
  <2> QED
    BY <1>1, <2>7, <2>8, <2>9
<1>2. CASE save.kind = "settings"
  <2>1. Put(save, old) = [old EXCEPT !.settings = save.settings] /\ save.settings \in Settings
    BY <1>2 DEF Put, Saves
  <2> QED
    BY <1>2, <2>1 DEF StoredPreferences, Sections, Touches
<1>3. CASE save.kind = "name"
  <2>1. /\ Put(save, old) = [old EXCEPT !.names[save.path] = save.name]
        /\ save.path \in Projects /\ save.name \in Texts \cup {NoText}
    BY <1>3 DEF Put, Saves
  <2>2. [old.names EXCEPT ![save.path] = save.name] \in [Projects -> Texts \cup {NoText}]
    BY <2>1 DEF StoredPreferences
  <2> QED
    BY <1>3, <2>1, <2>2 DEF StoredPreferences, Sections, Touches
<1>4. CASE save.kind = "library"
  <2>1. Put(save, old) = [old EXCEPT !.library = save.library] /\ save.library \in SUBSET Projects
    BY <1>4 DEF Put, Saves
  <2> QED
    BY <1>4, <2>1 DEF StoredPreferences, Sections, Touches
<1>5. CASE save.kind = "themes"
  <2>1. Put(save, old) = [old EXCEPT !.themes = save.themes]
    BY <1>5 DEF Put
  <2>2. save.themes \in SUBSET Themes
    BY <1>5 DEF Saves
  <2> QED
    BY <1>5, <2>1, <2>2 DEF StoredPreferences, Sections, Touches
<1>6. CASE save.kind = "drafts"
  <2>1. /\ Put(save, old) = [old EXCEPT !.drafts[save.path] = save.draft]
        /\ save.path \in Projects /\ save.draft \in Texts \cup {NoText}
    BY <1>6 DEF Put, Saves
  <2>2. [old.drafts EXCEPT ![save.path] = save.draft] \in [Projects -> Texts \cup {NoText}]
    BY <2>1 DEF StoredPreferences
  <2> QED
    BY <1>6, <2>1, <2>2 DEF StoredPreferences, Sections, Touches
<1> QED
  BY <1>1, <1>2, <1>3, <1>4, <1>5, <1>6 DEF Saves

\* A name is added while there is room for it.
LEMMA NamesFit ==
  ASSUME StoreAssumption, NEW names \in [Projects -> Texts \cup {NoText}], NamesAreValid(names),
         NEW path \in Projects, NEW name \in Texts \cup {NoText},
         name # NoText =>
           path \in Named(names) \/ Cardinality(Named(names)) < MaxProjectNames
  PROVE  NamesAreValid([names EXCEPT ![path] = name])
<1> PICK later : later = [names EXCEPT ![path] = name]
  OBVIOUS
<1> PICK old : old = Named(names)
  OBVIOUS
<1>1. old \subseteq Projects /\ IsFiniteSet(old)
  <2>1. old \subseteq Projects
    BY DEF Named
  <2> QED
    BY <2>1, FS_Subset DEF StoreAssumption
<1>2. Cardinality(old) \in Nat /\ Cardinality(old) <= MaxProjectNames
  BY <1>1, FS_CardinalityType DEF NamesAreValid
<1>3. Named(later) \subseteq old \cup (IF name = NoText THEN {} ELSE {path})
  BY DEF Named
<1>4. CASE name = NoText \/ path \in old
  <2>1. Named(later) \subseteq old
    BY <1>3, <1>4
  <2>2. Cardinality(Named(later)) \in Nat /\ Cardinality(Named(later)) <= Cardinality(old)
    BY <1>1, <2>1, FS_Subset, FS_CardinalityType
  <2> QED
    BY <1>2, <2>2 DEF NamesAreValid, StoreAssumption
<1>5. CASE name # NoText /\ path \notin old
  <2>1. IsFiniteSet(old \cup {path}) /\ Cardinality(old \cup {path}) = Cardinality(old) + 1
    BY <1>1, <1>5, FS_AddElement
  <2>2. /\ Cardinality(Named(later)) \in Nat
        /\ Cardinality(Named(later)) <= Cardinality(old \cup {path})
    BY <1>3, <1>5, <2>1, FS_Subset, FS_CardinalityType
  <2>3. Cardinality(old) < MaxProjectNames
    BY <1>5
  <2> QED
    BY <1>2, <2>1, <2>2, <2>3 DEF NamesAreValid, StoreAssumption
<1> QED
  BY <1>4, <1>5

-----------------------------------------------------------------------------
(* The preferences: the inductive invariant.                               *)

\* The file is as the save in progress read it.
ReplacesWhatItRead ==
  job.step = "replace" =>
    /\ preferences.kind = "absent" \/ Accepted(preferences)
    /\ Fits(job.save, Load(preferences))
    /\ job.next = Put(job.save, Load(preferences))

ThemesWereChecked ==
  job # Resting /\ job.save.kind = "themes" => ThemesAreValid(job.save.themes)

StoreInv == StoreTypeOK /\ ReplacesWhatItRead /\ ThemesWereChecked

\* Names and themes are touched by their own writers only.
LEMMA TouchesOne ==
  ASSUME NEW save \in Saves
  PROVE  /\ "names" \in Touches(save) => save.kind = "name"
         /\ "themes" \in Touches(save) => save.kind = "themes"
BY DEF Touches, Saves

\* What a save writes is a file that is accepted.
LEMMA NextIsAccepted ==
  ASSUME StoreAssumption, StoreInv, job.step = "replace"
  PROVE  /\ job.save \in Saves /\ Load(preferences) \in StoredPreferences
         /\ job.next \in StoredPreferences /\ job.next.version = StoreVersion
         /\ NamesAreValid(job.next.names) /\ ThemesAreValid(job.next.themes)
<1> PICK old : old = Load(preferences)
  OBVIOUS
<1>1. job # Resting /\ job.save \in Saves /\ job.next = Put(job.save, old) /\ Fits(job.save, old)
  BY DEF StoreInv, StoreTypeOK, ReplacesWhatItRead, Resting
<1>2. /\ old \in StoredPreferences /\ old.version = StoreVersion
      /\ NamesAreValid(old.names) /\ ThemesAreValid(old.themes)
  BY LoadIs DEF StoreInv, StoreTypeOK
<1> PICK save \in Saves : save = job.save
  BY <1>1
<1> PICK next : next = Put(save, old)
  OBVIOUS
<1>3. /\ next \in StoredPreferences /\ next.version = StoreVersion
      /\ \A s \in Sections \ Touches(save) : next[s] = old[s]
      /\ save.kind = "name" => next.names = [old.names EXCEPT ![save.path] = save.name]
      /\ save.kind = "themes" => next.themes = save.themes
  BY <1>2, PutIs
<1>4. NamesAreValid(next.names)
  <2>1. CASE save.kind = "name"
    <3>1. /\ save.path \in Projects /\ save.name \in Texts \cup {NoText}
          /\ old.names \in [Projects -> Texts \cup {NoText}]
      BY <1>2, <2>1 DEF Saves, StoredPreferences
    <3>2. save.name # NoText =>
            save.path \in Named(old.names) \/ Cardinality(Named(old.names)) < MaxProjectNames
      BY <1>1, <2>1 DEF Fits
    <3> PICK names \in [Projects -> Texts \cup {NoText}] : names = old.names
      BY <3>1
    <3>3. NamesAreValid([names EXCEPT ![save.path] = save.name])
      BY <1>2, <2>1, <3>1, <3>2, NamesFit
    <3> QED
      BY <1>3, <2>1, <3>3
  <2>2. CASE save.kind # "name"
    <3>1. "names" \in Sections \ Touches(save)
      BY <2>2, TouchesOne DEF Sections
    <3> QED
      BY <1>2, <1>3, <3>1
  <2> QED
    BY <2>1, <2>2
<1>5. ThemesAreValid(next.themes)
  <2>1. CASE save.kind = "themes"
    BY <1>1, <1>3, <2>1 DEF StoreInv, ThemesWereChecked
  <2>2. CASE save.kind # "themes"
    <3>1. "themes" \in Sections \ Touches(save)
      BY <2>2, TouchesOne DEF Sections
    <3> QED
      BY <1>2, <1>3, <3>1
  <2> QED
    BY <2>1, <2>2
<1> QED
  BY <1>1, <1>2, <1>3, <1>4, <1>5

\* A step that keeps the file, or leaves what the save in progress wrote.
LEMMA FileIsSound ==
  ASSUME StoreAssumption, StoreInv,
         preferences' \in {preferences} \cup
           (IF job.step = "replace" THEN {Store(job.next)} ELSE {})
  PROVE  preferences' \in [kind : {"absent", "refused", "store"}, content : StoredPreferences]
BY NextIsAccepted DEF StoreInv, StoreTypeOK, Store

LEMMA SubmitStep ==
  ASSUME StoreAssumption, StoreInv, NEW save \in Saves, Submit(save)
  PROVE  StoreInv'
<1>1. /\ queue \in Seq(Saves) /\ Len(queue) < MaxQueue /\ queue' = Append(queue, save)
      /\ asked < MaxSaves /\ asked' = asked + 1 /\ asked \in 0..MaxSaves
      /\ UNCHANGED <<preferences, job>>
  BY DEF Submit, StoreInv, StoreTypeOK
<1>2. queue' \in Seq(Saves) /\ Len(queue') = Len(queue) + 1 /\ Len(queue) \in Nat
  BY <1>1, AppendProperties
<1>3. StoreTypeOK'
  BY <1>1, <1>2 DEF StoreInv, StoreTypeOK, StoreAssumption
<1>4. ReplacesWhatItRead' /\ ThemesWereChecked'
  BY <1>1 DEF StoreInv, ReplacesWhatItRead, ThemesWereChecked
<1> QED
  BY <1>3, <1>4 DEF StoreInv

LEMMA TakeStep ==
  ASSUME StoreAssumption, StoreInv, Take
  PROVE  StoreInv'
<1>1. /\ queue \in Seq(Saves) /\ Len(queue) <= MaxQueue /\ queue # <<>> /\ queue' = Tail(queue)
      /\ UNCHANGED <<preferences, asked>>
  BY DEF Take, StoreInv, StoreTypeOK
<1>2. /\ Head(queue) \in Saves /\ Tail(queue) \in Seq(Saves)
      /\ Len(Tail(queue)) = Len(queue) - 1 /\ Len(queue) \in Nat
  BY <1>1, HeadTailProperties, EmptySeq, LenProperties
<1> PICK save \in Saves : save = Head(queue)
  BY <1>2
<1>3. \/ job' = Resting
      \/ /\ save.kind = "themes" => ThemesAreValid(save.themes)
         /\ job' = [step |-> "read", save |-> save]
  BY DEF Take
<1>4. job'.step # "replace" /\ ThemesWereChecked'
  BY <1>3 DEF Resting, ThemesWereChecked
<1>5. StoreTypeOK'
  BY <1>1, <1>2, <1>3 DEF StoreInv, StoreTypeOK, StoreAssumption
<1> QED
  BY <1>4, <1>5 DEF StoreInv, ReplacesWhatItRead

LEMMA ReadStep ==
  ASSUME StoreAssumption, StoreInv, Read
  PROVE  StoreInv'
<1> PICK old : old = Load(preferences)
  OBVIOUS
<1>1. /\ job.step = "read" /\ job # Resting /\ job.save \in Saves
      /\ UNCHANGED <<preferences, queue, asked>>
  BY DEF Read, Resting, StoreInv, StoreTypeOK
<1>2. CASE job' = Resting
  <2>1. StoreTypeOK'
    BY <1>1, <1>2 DEF StoreInv, StoreTypeOK
  <2>2. ReplacesWhatItRead' /\ ThemesWereChecked'
    BY <1>2 DEF ReplacesWhatItRead, ThemesWereChecked, Resting
  <2> QED
    BY <2>1, <2>2 DEF StoreInv
<1>3. CASE job' # Resting
  <2>1. /\ preferences.kind = "absent" \/ Accepted(preferences)
        /\ Fits(job.save, old)
        /\ job' = [step |-> "replace", save |-> job.save, next |-> Put(job.save, old)]
    BY <1>3 DEF Read
  <2>2. old \in StoredPreferences
    BY LoadIs DEF StoreInv, StoreTypeOK
  <2> PICK next : next = Put(job.save, old)
    OBVIOUS
  <2>3. next \in StoredPreferences
    BY <1>1, <2>2, PutIs
  <2>4. StoreTypeOK'
    BY <1>1, <2>1, <2>3 DEF StoreInv, StoreTypeOK
  <2>5. ReplacesWhatItRead'
    <3>1. job'.save = job.save /\ job'.next = next
      BY <2>1
    <3>2. Load(preferences)' = old
      BY <1>1
    <3> QED
      BY <1>1, <2>1, <3>1, <3>2 DEF ReplacesWhatItRead
  <2>6. ThemesWereChecked'
    <3>1. job'.save = job.save
      BY <2>1
    <3> QED
      BY <1>1, <3>1 DEF StoreInv, ThemesWereChecked
  <2> QED
    BY <2>4, <2>5, <2>6 DEF StoreInv
<1> QED
  BY <1>2, <1>3

\* The save ends, or the program does.
LEMMA ReplaceStep ==
  ASSUME StoreAssumption, StoreInv, Replace \/ RestartStore
  PROVE  StoreInv'
<1>1. /\ job' = Resting /\ UNCHANGED asked
      /\ queue' \in {queue, <<>>}
      /\ preferences' \in {preferences} \cup
           (IF job.step = "replace" THEN {Store(job.next)} ELSE {})
  BY DEF Replace, RestartStore
<1>2. preferences' \in [kind : {"absent", "refused", "store"}, content : StoredPreferences]
  BY <1>1, FileIsSound
<1>3. queue' \in Seq(Saves) /\ Len(queue') <= MaxQueue
  <2>1. <<>> \in Seq(Saves) /\ Len(<<>>) = 0
    BY EmptySeq
  <2>2. queue \in Seq(Saves) /\ Len(queue) <= MaxQueue /\ 0 <= MaxQueue
    BY DEF StoreInv, StoreTypeOK, StoreAssumption
  <2> QED
    BY <1>1, <2>1, <2>2
<1>4. StoreTypeOK'
  BY <1>1, <1>2, <1>3 DEF StoreInv, StoreTypeOK
<1>5. ReplacesWhatItRead' /\ ThemesWereChecked'
  BY <1>1 DEF ReplacesWhatItRead, ThemesWereChecked, Resting
<1> QED
  BY <1>4, <1>5 DEF StoreInv

-----------------------------------------------------------------------------
(* The preferences: what a save changes.                                   *)

\* What the save in progress writes.
LEMMA WrittenBySave ==
  ASSUME StoreAssumption, StoreInv, Replaces,
         preferences' \in {preferences} \cup
           (IF job.step = "replace" THEN {Store(job.next)} ELSE {})
  PROVE  /\ Accepted(preferences')
         /\ Load(preferences').recents = FirstOf(job.next.recents, MaxRecent)
         /\ \A s \in Sections \ {"recents"} : Load(preferences')[s] = job.next[s]
<1>1. job.step = "replace" /\ preferences' = Store(job.next)
  BY DEF Replaces
<1> PICK content \in StoredPreferences : content = job.next
  BY <1>1, NextIsAccepted
<1>2. content.version = StoreVersion /\ NamesAreValid(content.names) /\ ThemesAreValid(content.themes)
  BY <1>1, NextIsAccepted
<1> PICK later : later = preferences'
  OBVIOUS
<1>3. later = Store(content)
  BY <1>1
<1>4. /\ Accepted(later)
      /\ Load(later).recents = FirstOf(content.recents, MaxRecent)
      /\ \A s \in Sections \ {"recents"} : Load(later)[s] = content[s]
  BY <1>2, <1>3, WrittenIsFound
<1> QED
  BY <1>4

LEMMA SavesKeepOthers ==
  ASSUME StoreAssumption, StoreInv, StoreNext
  PROVE  KeepsOthers /\ SaveIsFound /\ KeepsRefused
<1> DEFINE written == IF job.step = "replace" THEN {Store(job.next)} ELSE {}
<1>1. preferences' \in {preferences} \cup written
  BY DEF StoreNext, Submit, Take, Read, Replace, RestartStore
<1>2. ASSUME Replaces
      PROVE  /\ \A s \in Sections \ Touches(job.save) :
                  Load(preferences')[s] = Load(preferences)[s]
             /\ Accepted(preferences')
             /\ job.save.kind = "library" => Load(preferences').library = job.save.library
             /\ job.save.kind = "remember" => Head(Load(preferences').recents) = job.save.path
             /\ job.save.kind = "drafts" =>
                  Load(preferences').drafts[job.save.path] = job.save.draft
  <2> PICK old : old = Load(preferences)
    OBVIOUS
  <2> PICK next : next = job.next
    OBVIOUS
  <2> PICK found : found = Load(preferences')
    OBVIOUS
  <2> PICK save : save = job.save
    OBVIOUS
  <2>1. /\ save \in Saves /\ old \in StoredPreferences /\ Len(old.recents) <= MaxRecent
        /\ next = Put(save, old) /\ next \in StoredPreferences
    BY <1>2, NextIsAccepted, LoadIs DEF Replaces, StoreInv, StoreTypeOK, ReplacesWhatItRead
  <2>7. /\ \A s \in Sections \ Touches(save) : next[s] = old[s]
        /\ save.kind = "library" => next.library = save.library
        /\ save.kind = "remember" => next.recents = Remembered(save.path, old.recents)
        /\ save.kind = "drafts" => next.drafts[save.path] = save.draft
    <3> PICK put : put = Put(save, old)
      OBVIOUS
    <3>1. save \in Saves /\ old \in StoredPreferences
      BY <2>1
    <3>2. /\ \A s \in Sections \ Touches(save) : put[s] = old[s]
          /\ save.kind = "library" => put.library = save.library
          /\ save.kind = "remember" => put.recents = Remembered(save.path, old.recents)
          /\ save.kind = "drafts" => put.drafts[save.path] = save.draft
      BY <3>1, PutIs
    <3> QED
      BY <2>1, <3>2
  <2>2. /\ Accepted(preferences') /\ found.recents = FirstOf(next.recents, MaxRecent)
        /\ \A s \in Sections \ {"recents"} : found[s] = next[s]
    BY <1>1, <1>2, WrittenBySave
  <2>3. ASSUME NEW s \in Sections \ Touches(save)
        PROVE  found[s] = old[s]
    <3>1. next[s] = old[s]
      BY <2>7
    <3>2. CASE s # "recents"
      BY <2>2, <3>1, <3>2
    <3>3. CASE s = "recents"
      <4>1. next.recents = old.recents /\ old.recents \in Seq(Projects) /\ MaxRecent \in Nat
        BY <2>1, <3>1, <3>3 DEF StoredPreferences, StoreAssumption
      <4>2. FirstOf(old.recents, MaxRecent) = old.recents
        BY <2>1, <4>1, FirstOfIs
      <4> QED
        BY <2>2, <3>3, <4>1, <4>2
    <3> QED
      BY <3>2, <3>3
  <2>4. ASSUME save.kind = "library"
        PROVE  found.library = save.library
    <3>1. found["library"] = next["library"]
      BY <2>2 DEF Sections
    <3> QED
      BY <2>4, <2>7, <3>1
  <2>5. ASSUME save.kind = "drafts"
        PROVE  found.drafts[save.path] = save.draft
    <3>1. found["drafts"] = next["drafts"]
      BY <2>2 DEF Sections
    <3> QED
      BY <2>5, <2>7, <3>1
  <2>6. ASSUME save.kind = "remember"
        PROVE  Head(found.recents) = save.path
    <3> DEFINE older == FirstOf(RemoveFirst(old.recents, save.path), MaxRecent - 1)
    <3>1. save.path \in Projects /\ old.recents \in Seq(Projects) /\ MaxRecent \in Nat \ {0}
      BY <2>1, <2>6 DEF Saves, StoredPreferences, StoreAssumption
    <3>2. older \in Seq(Projects)
      BY <3>1, RemoveFirstIs, FirstOfIs
    <3>3. next.recents = <<save.path>> \o older
      BY <2>6, <2>7 DEF Remembered
    <3> HIDE DEF older
    <3>4. /\ next.recents \in Seq(Projects) /\ next.recents # <<>>
          /\ Head(next.recents) = save.path
      <4>1. /\ <<save.path>> \o older \in Seq(Projects)
            /\ Len(<<save.path>> \o older) = 1 + Len(older) /\ Len(older) \in Nat
            /\ (<<save.path>> \o older)[1] = save.path
        BY <3>1, <3>2, ConcatProperties
      <4> QED
        BY <3>3, <4>1, EmptySeq, HeadTailProperties
    <3> QED
      BY <2>2, <3>1, <3>4, FirstOfIs
  <2> QED
    BY <2>2, <2>3, <2>4, <2>5, <2>6
<1>3. KeepsRefused
  <2> SUFFICES ASSUME preferences.kind # "absent", ~Accepted(preferences)
               PROVE  preferences' = preferences
    BY DEF KeepsRefused
  <2>1. job.step # "replace"
    BY DEF StoreInv, ReplacesWhatItRead
  <2> QED
    BY <1>1, <2>1
<1> QED
  BY <1>2, <1>3 DEF KeepsOthers, SaveIsFound

(***************************************************************************)
(* A save changes its own section of the preferences and no other, as the  *)
(* next load finds them; what was saved is found; and a file that is not   *)
(* understood stays as it is: for every file an earlier version left, any  *)
(* number of saves, and kills at any step (remember_at, save_settings_at,  *)
(* save_project_name_at, save_project_library_at, save_custom_themes_at,   *)
(* save_commit_drafts_at).                                                 *)
(***************************************************************************)
THEOREM SectionsSurvive == ASSUME StoreAssumption PROVE PreferencesSpec => OthersSurvive
<1>1. StoreInit => StoreInv
  <2> SUFFICES ASSUME StoreInit
               PROVE  StoreInv
    OBVIOUS
  <2>1. Empty \in StoredPreferences
    BY DEF Empty, StoredPreferences, StoreAssumption, StoreVersion
  <2>2. preferences \in [kind : {"absent", "refused", "store"}, content : StoredPreferences]
    BY <2>1 DEF StoreInit, NoStore, RefusedStore, Store, StoreAssumption
  <2>3. StoreTypeOK
    BY <2>2, EmptySeq DEF StoreInit, StoreTypeOK, StoreAssumption
  <2> QED
    BY <2>3 DEF StoreInit, StoreInv, ReplacesWhatItRead, ThemesWereChecked, Resting
<1>2. StoreInv /\ [StoreNext]_preferencesVars => StoreInv'
  <2> SUFFICES ASSUME StoreInv, [StoreNext]_preferencesVars
               PROVE  StoreInv'
    OBVIOUS
  <2>1. CASE UNCHANGED preferencesVars
    BY <2>1 DEF preferencesVars, StoreInv, StoreTypeOK, ReplacesWhatItRead, ThemesWereChecked
  <2> QED
    BY <2>1, SubmitStep, TakeStep, ReadStep, ReplaceStep DEF StoreNext
<1>3. StoreInv /\ [StoreNext]_preferencesVars
        => [StoreTypeOK /\ KeepsOthers /\ SaveIsFound /\ KeepsRefused]_preferencesVars
  BY SavesKeepOthers DEF StoreInv
<1> QED
  BY <1>1, <1>2, <1>3, PTL DEF PreferencesSpec, OthersSurvive

-----------------------------------------------------------------------------
(* The profiles: the inductive invariant.                                  *)

\* Who has read the store holds its lock, and wrote down what it makes of it.
LoadedIsCurrent ==
  \A p \in Programs :
    /\ update[p].step \in {"locked", "loaded"} => lock = p
    /\ update[p].step = "loaded" => /\ Expected(profiles, update[p].mutation)
                                    /\ update[p].next = Mutated(profiles, update[p].mutation)

\* Who has compared the configuration under its lock may count on it while he
\* has it; and until one is taken from another, what is in the lock is his.
VerifiedIsCurrent ==
  /\ ~robbed /\ gitWrites => configLock.by = Git
  /\ \A p \in Programs :
       /\ configLock.by = p /\ apply[p].step \in {"write", "compare", "publish"}
            => config = apply[p].original
       /\ ~robbed /\ apply[p].step \in {"compare", "publish"}
            => configLock.text = apply[p].definition.identity

\* No save is under way beside a review, its confirmation or the write, and
\* the confirmation is closed by the write.
AppliesAlone ==
  \A p \in Programs :
    /\ ui[p].busy # Nothing \/ ui[p].dialog.kind \in {"review", "confirm"} => ~ui[p].saving
    /\ ui[p].busy = "applying" => ui[p].dialog.kind \notin {"review", "confirm"}

ProfilesInvariant ==
  /\ ProfilesTypeOK /\ RepliesAreAwaited /\ AssignedIsDefined /\ LocksAreHeld
  /\ LoadedIsCurrent /\ VerifiedIsCurrent /\ AppliesAlone

ProgramsAreNot == NothingAssumption /\ LeftAssumption /\ ProfilesAssumption

\* A window that changes without a save or a write being asked for or answered.
LEMMA WindowChanges ==
  ASSUME ProfilesInvariant, ProgramsAreNot, NEW p \in Programs, NEW u \in Windows, Window(p, u),
         u.saving = ui[p].saving,
         u.busy = "applying" <=> ui[p].busy = "applying",
         u.busy # Nothing \/ u.dialog.kind \in {"review", "confirm"} => ~u.saving,
         u.busy = "applying" => u.dialog.kind \notin {"review", "confirm"},
         UNCHANGED <<profiles, lock, configVars, update, apply, outside>>,
         edits' \in {edits} \cup 0 .. MaxEdits, applies' \in {applies} \cup 0 .. MaxApplies
  PROVE  ProfilesInvariant'
<1>1. ui' = [ui EXCEPT ![p] = u] /\ ui \in [Programs -> Windows]
  BY DEF Window, ProfilesInvariant, ProfilesTypeOK
<1>2. ProfilesTypeOK'
  BY <1>1 DEF ProfilesInvariant, ProfilesTypeOK, configVars
<1>3. RepliesAreAwaited' /\ AppliesAlone'
  BY <1>1 DEF ProfilesInvariant, RepliesAreAwaited, AppliesAlone
<1>4. LoadedIsCurrent' /\ VerifiedIsCurrent' /\ AssignedIsDefined' /\ LocksAreHeld'
  BY DEF ProfilesInvariant, LoadedIsCurrent, VerifiedIsCurrent, AssignedIsDefined, LocksAreHeld,
         Expected, Mutated, configVars
<1> QED
  BY <1>2, <1>3, <1>4 DEF ProfilesInvariant

\* What a window shows, by its kind.
LEMMA DialogIs ==
  ASSUME ProfilesTypeOK, NEW p \in Programs
  PROVE  LET d == ui[p].dialog
         IN  /\ ui[p] \in Windows /\ d \in Dialogs
             /\ d.kind = "form" => d.id \in Ids /\ d.previous \in Identities \cup {Nothing}
             /\ d.kind \in {"delete", "review", "confirm"} => d.definition \in Definition
             /\ d.kind = "confirm" => d.original \in Configs
<1>1. ui[p] \in Windows /\ ui[p].dialog \in Dialogs
  BY DEF ProfilesTypeOK, Windows
<1> QED
  BY <1>1 DEF Dialogs, NoDialog, Nothing

LEMMA EditProfileStep ==
  ASSUME ProfilesInvariant, ProgramsAreNot, NEW p \in Programs, NEW id \in Ids, EditProfile(p, id)
  PROVE  ProfilesInvariant'
<1> DEFINE form == [kind |-> "form", id |-> id, previous |-> ui[p].store.defs[id]]
           u == [ui[p] EXCEPT !.dialog = form]
<1>1. ui[p] \in Windows
  BY DialogIs DEF ProfilesInvariant
<1>2. form \in Dialogs
  BY <1>1 DEF Windows, Dialogs, Stores, Definitions
<1>3. /\ u \in Windows /\ u.saving = ui[p].saving /\ u.busy = ui[p].busy
      /\ u.dialog.kind = "form"
  BY <1>1, <1>2 DEF Windows
<1>4. Window(p, u) /\ ~ui[p].saving
  BY DEF EditProfile, Free
<1> HIDE DEF u
<1> QED
  BY <1>1, <1>3, <1>4, WindowChanges DEF EditProfile

LEMMA DeleteProfileStep ==
  ASSUME ProfilesInvariant, ProgramsAreNot, NEW p \in Programs, NEW d \in Definition,
         DeleteProfile(p, d)
  PROVE  ProfilesInvariant'
<1> DEFINE dialog == [kind |-> "delete", definition |-> d]
           u == [ui[p] EXCEPT !.dialog = dialog]
<1>1. ui[p] \in Windows
  BY DialogIs DEF ProfilesInvariant
<1>2. dialog \in Dialogs
  BY DEF Dialogs
<1>3. /\ u \in Windows /\ u.saving = ui[p].saving /\ u.busy = ui[p].busy
      /\ u.dialog.kind = "delete"
  BY <1>1, <1>2 DEF Windows
<1>4. ui[p].busy # Nothing => ~ui[p].saving
  BY DEF ProfilesInvariant, AppliesAlone
<1>5. Window(p, u)
  BY DEF DeleteProfile
<1> HIDE DEF u
<1> QED
  BY <1>1, <1>3, <1>4, <1>5, WindowChanges DEF DeleteProfile

LEMMA CancelDialogStep ==
  ASSUME ProfilesInvariant, ProgramsAreNot, NEW p \in Programs, CancelDialog(p)
  PROVE  ProfilesInvariant'
<1> DEFINE u == [ui[p] EXCEPT !.dialog = NoDialog]
<1>1. ui[p] \in Windows
  BY DialogIs DEF ProfilesInvariant
<1>2. NoDialog \in Dialogs /\ NoDialog.kind = Nothing
  BY DEF Dialogs, NoDialog
<1>3. u \in Windows /\ u.saving = ui[p].saving /\ u.busy = ui[p].busy /\ u.dialog = NoDialog
  BY <1>1, <1>2 DEF Windows
<1>4. ui[p].busy # Nothing => ~ui[p].saving
  BY DEF ProfilesInvariant, AppliesAlone
<1> QED
  BY <1>1, <1>2, <1>3, <1>4, WindowChanges DEF CancelDialog, Nothing

LEMMA PrepareProfileStep ==
  ASSUME ProfilesInvariant, ProgramsAreNot, NEW p \in Programs, NEW d \in Definition,
         PrepareProfile(p, d)
  PROVE  ProfilesInvariant'
<1> DEFINE dialog == [kind |-> "review", definition |-> d]
           u == [ui[p] EXCEPT !.busy = "reviewing", !.dialog = dialog]
<1>1. ui[p] \in Windows /\ applies' \in 0 .. MaxApplies
  BY DialogIs DEF ProfilesInvariant, ProfilesTypeOK, PrepareProfile, ProgramsAreNot,
     ProfilesAssumption
<1>2. dialog \in Dialogs
  BY DEF Dialogs
<1>3. u \in Windows /\ u.saving = ui[p].saving /\ u.busy = "reviewing"
  BY <1>1, <1>2 DEF Windows
<1>4. Window(p, u) /\ ui[p].busy = Nothing /\ ~ui[p].saving
  BY DEF PrepareProfile, Free
<1> QED
  BY <1>1, <1>3, <1>4, WindowChanges DEF PrepareProfile, Nothing

LEMMA ProfilePlanStep ==
  ASSUME ProfilesInvariant, ProgramsAreNot, NEW p \in Programs, ProfilePlan(p)
  PROVE  ProfilesInvariant'
<1> DEFINE dialog == [kind |-> "confirm", definition |-> ui[p].dialog.definition,
                      original |-> config]
           u == [ui[p] EXCEPT !.busy = Nothing, !.dialog = dialog]
<1>1. ui[p] \in Windows /\ config \in Configs
  BY DialogIs DEF ProfilesInvariant, ProfilesTypeOK
<1>2. dialog \in Dialogs
  BY <1>1, DialogIs DEF ProfilesInvariant, ProfilePlan, Dialogs
<1>3. u \in Windows /\ u.saving = ui[p].saving /\ u.busy = Nothing
  BY <1>1, <1>2 DEF Windows
<1>4. Window(p, u) /\ ui[p].busy = "reviewing" /\ ~ui[p].saving
  BY DEF ProfilePlan, ProfilesInvariant, AppliesAlone, Nothing
<1> QED
  BY <1>1, <1>3, <1>4, WindowChanges DEF ProfilePlan, Nothing

LEMMA ReviewFailsStep ==
  ASSUME ProfilesInvariant, ProgramsAreNot, NEW p \in Programs, ReviewFails(p)
  PROVE  ProfilesInvariant'
<1> DEFINE u == [ui[p] EXCEPT !.busy = Nothing, !.dialog = NoDialog]
<1>1. ui[p] \in Windows
  BY DialogIs DEF ProfilesInvariant
<1>2. NoDialog \in Dialogs /\ NoDialog.kind = Nothing
  BY DEF Dialogs, NoDialog
<1>3. u \in Windows /\ u.saving = ui[p].saving /\ u.busy = Nothing /\ u.dialog = NoDialog
  BY <1>1, <1>2 DEF Windows
<1>4. Window(p, u) /\ ui[p].busy = "reviewing"
  BY DEF ReviewFails
<1> QED
  BY <1>1, <1>2, <1>3, <1>4, WindowChanges DEF ReviewFails, Nothing

-----------------------------------------------------------------------------
(* Saves are asked for.                                                    *)

\* save_profile_mutation, whether it submits the mutation or drops it.
LEMMA SavingKeeps ==
  ASSUME ProfilesInvariant, ProgramsAreNot, NEW p \in Programs, NEW u \in Windows,
         NEW m \in Mutations, Saving(p, u, m), u.saving = ui[p].saving,
         UNCHANGED <<profiles, lock>>
  PROVE  /\ ui' \in [Programs -> Windows] /\ update' \in [Programs -> Updates]
         /\ ui'[p].saving /\ ui'[p].busy = u.busy /\ ui'[p].dialog = u.dialog
         /\ update'[p] # NoUpdate
         /\ \A q \in Programs \ {p} : ui'[q] = ui[q] /\ update'[q] = update[q]
         /\ \A q \in Programs : lock = q => update'[q].step \in {"locked", "loaded"}
         /\ LoadedIsCurrent'
<1>1. ui \in [Programs -> Windows] /\ update \in [Programs -> Updates]
  BY DEF ProfilesInvariant, ProfilesTypeOK
<1>2. CASE u.saving
  <2>1. ui' = [ui EXCEPT ![p] = u] /\ update' = update /\ update[p] # NoUpdate
    BY <1>2 DEF Saving, Window, ProfilesInvariant, RepliesAreAwaited
  <2> QED
    BY <1>1, <1>2, <2>1 DEF ProfilesInvariant, LocksAreHeld, LoadedIsCurrent
<1>3. CASE ~u.saving
  <2> DEFINE j == [step |-> "queued", mutation |-> m, next |-> Unread,
                   form |-> u.dialog.kind = "form"]
             v == [u EXCEPT !.saving = TRUE, !.error = FALSE]
  <2>1. ui' = [ui EXCEPT ![p] = v] /\ update' = [update EXCEPT ![p] = j]
    BY <1>3 DEF Saving, Window
  <2> Unread \in Stores
    BY DEF Unread, Stores, Definitions
  <2>2. /\ v \in Windows /\ v.saving /\ v.busy = u.busy /\ v.dialog = u.dialog
        /\ j \in Updates /\ j.step = "queued"
    BY DEF Windows, Updates
  <2>3. update[p].step = Nothing
    BY <1>3 DEF ProfilesInvariant, RepliesAreAwaited, NoUpdate
  <2>4. lock # p
    BY <2>3 DEF ProfilesInvariant, LocksAreHeld, Nothing
  <2> HIDE DEF j, v
  <2>5. j # NoUpdate
    BY <2>2 DEF NoUpdate, Nothing
  <2>6. LoadedIsCurrent'
    BY <1>1, <2>1, <2>2 DEF ProfilesInvariant, LoadedIsCurrent
  <2> QED
    BY <1>1, <2>1, <2>2, <2>4, <2>5, <2>6 DEF ProfilesInvariant, LocksAreHeld
<1> QED
  BY <1>2, <1>3

\* A save that is asked for where nothing is applied or confirmed.
LEMMA SavesAlone ==
  ASSUME ProfilesInvariant, ProgramsAreNot, NEW p \in Programs, NEW u \in Windows,
         NEW m \in Mutations, Saving(p, u, m), u.saving = ui[p].saving,
         u.busy = Nothing, ui[p].busy = Nothing, u.dialog.kind \notin {"review", "confirm"},
         UNCHANGED <<profiles, lock, configVars, apply, applies, outside>>,
         edits' \in 0 .. MaxEdits
  PROVE  ProfilesInvariant'
<1>1. /\ ui' \in [Programs -> Windows] /\ update' \in [Programs -> Updates]
      /\ ui'[p].saving /\ ui'[p].busy = u.busy /\ ui'[p].dialog = u.dialog
      /\ update'[p] # NoUpdate
      /\ \A q \in Programs \ {p} : ui'[q] = ui[q] /\ update'[q] = update[q]
      /\ \A q \in Programs : lock = q => update'[q].step \in {"locked", "loaded"}
      /\ LoadedIsCurrent'
  BY SavingKeeps
<1>2. ProfilesTypeOK'
  BY <1>1 DEF ProfilesInvariant, ProfilesTypeOK, configVars
<1>3. RepliesAreAwaited'
  BY <1>1 DEF ProfilesInvariant, RepliesAreAwaited, Nothing
<1>4. AppliesAlone'
  BY <1>1 DEF ProfilesInvariant, AppliesAlone
<1>5. VerifiedIsCurrent' /\ AssignedIsDefined' /\ LocksAreHeld'
  BY <1>1 DEF ProfilesInvariant, VerifiedIsCurrent, AssignedIsDefined, LocksAreHeld, configVars
<1> QED
  BY <1>1, <1>2, <1>3, <1>4, <1>5 DEF ProfilesInvariant

LEMMA SubmitFormStep ==
  ASSUME ProfilesInvariant, ProgramsAreNot, NEW p \in Programs, NEW identity \in Identities,
         SubmitForm(p, identity)
  PROVE  ProfilesInvariant'
<1> DEFINE form == ui[p].dialog
           m == [kind |-> "save", id |-> form.id, previous |-> form.previous,
                 identity |-> identity]
<1>1. /\ ui[p] \in Windows /\ form.kind = "form" /\ form.id \in Ids
      /\ form.previous \in Identities \cup {Nothing}
  BY DialogIs DEF SubmitForm, ProfilesInvariant
<1>2. m \in Mutations
  BY <1>1 DEF Mutations
<1>3. Saving(p, ui[p], m) /\ ui[p].busy = Nothing
  BY DEF SubmitForm, Free
<1>4. edits' \in 0 .. MaxEdits
  BY DEF SubmitForm, ProfilesInvariant, ProfilesTypeOK, ProgramsAreNot, ProfilesAssumption
<1> HIDE DEF m
<1> QED
  BY <1>1, <1>2, <1>3, <1>4, SavesAlone DEF SubmitForm

LEMMA ConfirmDeleteStep ==
  ASSUME ProfilesInvariant, ProgramsAreNot, NEW p \in Programs, ConfirmDelete(p)
  PROVE  ProfilesInvariant'
<1> DEFINE d == ui[p].dialog.definition
           u == [ui[p] EXCEPT !.dialog = NoDialog]
           m == [kind |-> "delete", id |-> d.id, identity |-> d.identity]
<1>1. ui[p] \in Windows /\ d \in Definition
  BY DialogIs DEF ConfirmDelete, ProfilesInvariant
<1>2. m \in Mutations
  BY <1>1 DEF Mutations, Definition
<1>3. NoDialog \in Dialogs /\ NoDialog.kind = Nothing
  BY DEF Dialogs, NoDialog
<1>4. u \in Windows /\ u.saving = ui[p].saving /\ u.busy = ui[p].busy /\ u.dialog = NoDialog
  BY <1>1, <1>3 DEF Windows
<1>5. edits' \in 0 .. MaxEdits
  BY DEF ConfirmDelete, ProfilesInvariant, ProfilesTypeOK, ProgramsAreNot, ProfilesAssumption
<1>6. ui[p].busy # Nothing => ~ui[p].saving
  BY DEF ProfilesInvariant, AppliesAlone
<1>7. CASE ui[p].busy = Nothing
  <2>1. Saving(p, u, m)
    BY <1>7 DEF ConfirmDelete
  <2> HIDE DEF u, m
  <2> QED
    BY <1>2, <1>3, <1>4, <1>5, <1>7, <2>1, SavesAlone DEF ConfirmDelete, Nothing
<1>8. CASE ui[p].busy # Nothing
  <2>1. Window(p, u) /\ update' = update
    BY <1>8 DEF ConfirmDelete
  <2> HIDE DEF u
  <2> QED
    BY <1>3, <1>4, <1>5, <1>6, <2>1, WindowChanges DEF ConfirmDelete, Nothing
<1> QED
  BY <1>7, <1>8

LEMMA RetryStep ==
  ASSUME ProfilesInvariant, ProgramsAreNot, NEW p \in Programs, Retry(p)
  PROVE  ProfilesInvariant'
<1>1. /\ ui[p] \in Windows /\ profiles \in Stores /\ edits' \in 0 .. MaxEdits
  BY DEF Retry, ProfilesInvariant, ProfilesTypeOK, ProgramsAreNot, ProfilesAssumption
<1>2. ui[p].busy = Nothing /\ ~ui[p].saving
  BY DEF Retry, Free
<1>3. NoDialog \in Dialogs /\ NoDialog.kind = Nothing
  BY DEF Dialogs, NoDialog
<1>4. CASE ui[p].failed # NoDialog
  <2> DEFINE u == [ui[p] EXCEPT !.dialog = NoDialog]
  <2>1. u \in Windows /\ u.saving = ui[p].saving /\ u.busy = ui[p].busy /\ u.dialog = NoDialog
    BY <1>1, <1>3 DEF Windows
  <2>2. Saving(p, u, ui[p].failed) /\ ui[p].failed \in Mutations
    BY <1>1, <1>4 DEF Retry, Windows
  <2> HIDE DEF u
  <2> QED
    BY <1>1, <1>2, <1>3, <2>1, <2>2, SavesAlone DEF Retry, Nothing
<1>5. CASE ui[p].failed = NoDialog
  <2> DEFINE u == [ui[p] EXCEPT !.store = profiles, !.error = FALSE]
  <2>1. /\ u \in Windows /\ u.saving = ui[p].saving /\ u.busy = ui[p].busy
        /\ u.dialog = ui[p].dialog
    BY <1>1 DEF Windows
  <2>2. Window(p, u) /\ update' = update
    BY <1>5 DEF Retry
  <2>3. ui[p].dialog.kind \in {"review", "confirm"} => ~ui[p].saving
    BY <1>2
  <2> HIDE DEF u
  <2> QED
    BY <1>1, <1>2, <2>1, <2>2, <2>3, WindowChanges DEF Retry, Nothing
<1> QED
  BY <1>4, <1>5

-----------------------------------------------------------------------------
(* The preference executor: Store::update.                                 *)

\* A job, by its step.
LEMMA UpdateIs ==
  ASSUME ProfilesTypeOK, NEW p \in Programs, update[p].step # Nothing
  PROVE  LET j == update[p]
         IN  /\ j # NoUpdate
             /\ j \in [step : {"queued", "locked", "loaded", "saved", "failed"},
                       mutation : Mutations, next : Stores, form : BOOLEAN]
BY DEF ProfilesTypeOK, Updates, NoUpdate

\* What a mutation makes of a store that it was made from.
LEMMA MutatedIs ==
  ASSUME NothingAssumption, NEW store \in Stores, NEW m \in Mutations, Expected(store, m),
         store.assigned # Nothing => store.defs[store.assigned] # Nothing
  PROVE  LET next == Mutated(store, m)
         IN  /\ next \in Stores
             /\ next.assigned # Nothing => next.defs[next.assigned] # Nothing
             /\ \A id \in Ids \ {m.id} : next.defs[id] = store.defs[id]
             /\ m.kind = "save" => next.assigned = store.assigned
<1>1. store.defs \in Definitions /\ store.assigned \in Ids \cup {Nothing}
  BY DEF Stores
<1>2. CASE m.kind = "save"
  <2>1. Mutated(store, m) = [store EXCEPT !.defs = [store.defs EXCEPT ![m.id] = m.identity]]
    BY <1>2 DEF Mutated
  <2>2. m.id \in Ids /\ m.identity \in Identities
    BY DEF Mutations
  <2>3. [store.defs EXCEPT ![m.id] = m.identity] \in Definitions
    BY <1>1, <2>2 DEF Definitions
  <2> QED
    BY <1>1, <1>2, <2>1, <2>2, <2>3 DEF Stores, Definitions, NothingAssumption
<1>3. CASE m.kind = "delete"
  <2> DEFINE defs == [store.defs EXCEPT ![m.id] = Nothing]
             assigned == IF store.assigned = m.id THEN Nothing ELSE store.assigned
  <2>1. Mutated(store, m) = [defs |-> defs, assigned |-> assigned]
    BY <1>3 DEF Mutated
  <2>2. m.id \in Ids
    BY DEF Mutations
  <2>3. defs \in Definitions /\ \A id \in Ids \ {m.id} : defs[id] = store.defs[id]
    BY <1>1, <2>2 DEF Definitions
  <2>4. assigned \in Ids \cup {Nothing} /\ (assigned # Nothing => defs[assigned] # Nothing)
    BY <1>1, <2>3
  <2> HIDE DEF defs, assigned
  <2> QED
    BY <1>3, <2>1, <2>3, <2>4 DEF Stores
<1>4. CASE m.kind = "assign"
  <2>1. Mutated(store, m) = [store EXCEPT !.assigned = m.id]
    BY <1>4 DEF Mutated
  <2>2. m.id \in Ids /\ m.identity \in Identities /\ store.defs[m.id] = m.identity
    BY <1>4 DEF Mutations, Expected
  <2> QED
    BY <1>1, <1>4, <2>1, <2>2 DEF Stores, NothingAssumption
<1> QED
  BY <1>2, <1>3, <1>4 DEF Mutations

\* A step of a job that leaves the windows and the configuration.
LEMMA JobMoves ==
  ASSUME ProfilesInvariant, NEW p \in Programs, update[p].step # Nothing,
         NEW j \in Updates, j.step # Nothing, update' = [update EXCEPT ![p] = j],
         UNCHANGED <<configVars, ui, apply, edits, applies, outside>>,
         profiles' \in Stores, lock' \in {lock, p, Nothing},
         LoadedIsCurrent', AssignedIsDefined',
         \A q \in Programs : lock' = q => update'[q].step \in {"locked", "loaded"}
  PROVE  ProfilesInvariant'
<1>1. j # NoUpdate /\ update[p] # NoUpdate
  BY DEF NoUpdate
<1>2. ProfilesTypeOK'
  BY DEF ProfilesInvariant, ProfilesTypeOK, configVars
<1>3. RepliesAreAwaited' /\ AppliesAlone'
  BY <1>1 DEF ProfilesInvariant, ProfilesTypeOK, RepliesAreAwaited, AppliesAlone
<1>4. VerifiedIsCurrent' /\ LocksAreHeld'
  BY DEF ProfilesInvariant, VerifiedIsCurrent, LocksAreHeld, configVars
<1> QED
  BY <1>2, <1>3, <1>4 DEF ProfilesInvariant

LEMMA UpdateLockStep ==
  ASSUME ProfilesInvariant, ProgramsAreNot, NEW p \in Programs, UpdateLock(p)
  PROVE  ProfilesInvariant'
<1> DEFINE step == IF lock = Nothing THEN "locked" ELSE "failed"
           j == [update[p] EXCEPT !.step = step]
<1>1. /\ update[p].step = "queued" /\ update' = [update EXCEPT ![p] = j]
      /\ lock' = IF lock = Nothing THEN p ELSE lock
  BY DEF UpdateLock
<1>2. update[p].step # Nothing /\ update \in [Programs -> Updates]
  BY <1>1 DEF Nothing, ProfilesInvariant, ProfilesTypeOK
<1>3. j \in Updates /\ j.step = step /\ step \in {"locked", "failed"}
  BY <1>2, UpdateIs DEF ProfilesInvariant, Updates
<1>4. \A q \in Programs \ {p} : update'[q] = update[q]
  BY <1>1, <1>2
<1>5. update'[p] = j
  BY <1>1, <1>2
<1>6. lock # p
  BY <1>1 DEF ProfilesInvariant, LocksAreHeld
<1> HIDE DEF j
<1>7. \A q \in Programs : lock' = q => update'[q].step \in {"locked", "loaded"}
  BY <1>1, <1>3, <1>4, <1>5, <1>6
     DEF ProfilesInvariant, LocksAreHeld, ProgramsAreNot, NothingAssumption
<1>8. LoadedIsCurrent'
  <2>1. profiles' = profiles /\ (lock' = lock \/ lock = Nothing)
    BY <1>1 DEF UpdateLock
  <2>2. ASSUME NEW q \in Programs, q # p
        PROVE  /\ update'[q] = update[q]
               /\ update[q].step \in {"locked", "loaded"} => lock' = q
    BY <1>4, <2>1, <2>2
       DEF ProfilesInvariant, LoadedIsCurrent, ProgramsAreNot, NothingAssumption
  <2>3. /\ update'[p].step \in {"locked", "failed"}
        /\ update'[p].step = "locked" => lock' = p
    BY <1>1, <1>3, <1>5
  <2> QED
    BY <2>1, <2>2, <2>3 DEF ProfilesInvariant, LoadedIsCurrent
<1>9. profiles' \in Stores /\ AssignedIsDefined'
  BY DEF UpdateLock, ProfilesInvariant, ProfilesTypeOK, AssignedIsDefined
<1> QED
  BY <1>1, <1>2, <1>3, <1>7, <1>8, <1>9, JobMoves DEF UpdateLock, Nothing

LEMMA UpdateLoadStep ==
  ASSUME ProfilesInvariant, ProgramsAreNot, NEW p \in Programs, UpdateLoad(p)
  PROVE  ProfilesInvariant'
<1>1. update[p].step = "locked" /\ update[p].step # Nothing /\ lock = p
  BY DEF UpdateLoad, Nothing, ProfilesInvariant, LoadedIsCurrent
<1>2. update[p].mutation \in Mutations /\ update \in [Programs -> Updates] /\ profiles \in Stores
  BY <1>1, UpdateIs DEF ProfilesInvariant, ProfilesTypeOK
<1>3. profiles' = profiles /\ AssignedIsDefined'
  BY DEF UpdateLoad, ProfilesInvariant, AssignedIsDefined
<1>4. \A q \in Programs \ {p} : lock # q /\ update[q].step \notin {"locked", "loaded"}
  BY <1>1 DEF ProfilesInvariant, LoadedIsCurrent
<1>5. CASE Expected(profiles, update[p].mutation)
  <2> DEFINE next == Mutated(profiles, update[p].mutation)
             j == [update[p] EXCEPT !.step = "loaded", !.next = next]
  <2>1. update' = [update EXCEPT ![p] = j] /\ lock' = lock
    BY <1>2, <1>5 DEF UpdateLoad
  <2>2. next \in Stores
    BY <1>2, <1>5, MutatedIs DEF ProfilesInvariant, AssignedIsDefined, ProgramsAreNot
  <2>3. /\ j \in Updates /\ j.step = "loaded" /\ j.next = next
        /\ j.mutation = update[p].mutation
    BY <1>1, <2>2, UpdateIs DEF ProfilesInvariant, Updates
  <2> HIDE DEF j
  <2>4. update'[p] = j /\ \A q \in Programs \ {p} : update'[q] = update[q]
    BY <1>2, <2>1
  <2>5. LoadedIsCurrent'
    <3>1. ASSUME NEW q \in Programs
          PROVE  /\ update'[q].step \in {"locked", "loaded"} => lock' = q
                 /\ update'[q].step = "loaded" =>
                      /\ Expected(profiles', update'[q].mutation)
                      /\ update'[q].next = Mutated(profiles', update'[q].mutation)
      <4>1. CASE q = p
        BY <1>1, <1>3, <1>5, <2>1, <2>2, <2>3, <2>4, <4>1
      <4>2. CASE q # p
        BY <1>4, <2>4, <4>2 DEF ProfilesInvariant, LoadedIsCurrent
      <4> QED
        BY <4>1, <4>2
    <3> QED
      BY <3>1 DEF LoadedIsCurrent
  <2>6. \A q \in Programs : lock' = q => update'[q].step \in {"locked", "loaded"}
    BY <1>4, <2>1, <2>3, <2>4
  <2> QED
    BY <1>1, <1>2, <1>3, <2>1, <2>3, <2>5, <2>6, JobMoves DEF UpdateLoad, Nothing
<1>6. CASE ~Expected(profiles, update[p].mutation)
  <2> DEFINE j == [update[p] EXCEPT !.step = "failed"]
  <2>1. update' = [update EXCEPT ![p] = j] /\ lock' = Nothing
    BY <1>1, <1>6 DEF UpdateLoad
  <2>2. j \in Updates /\ j.step = "failed"
    BY <1>1, UpdateIs DEF ProfilesInvariant, Updates
  <2> HIDE DEF j
  <2>3. update'[p] = j /\ \A q \in Programs \ {p} : update'[q] = update[q]
    BY <1>2, <2>1
  <2>4. LoadedIsCurrent'
    BY <1>4, <2>2, <2>3 DEF ProfilesInvariant, LoadedIsCurrent
  <2>5. \A q \in Programs : lock' # q
    BY <2>1 DEF ProgramsAreNot, NothingAssumption
  <2> QED
    BY <1>1, <1>2, <1>3, <2>1, <2>2, <2>4, <2>5, JobMoves DEF UpdateLoad, Nothing
<1> QED
  BY <1>5, <1>6

LEMMA UpdateWriteStep ==
  ASSUME ProfilesInvariant, ProgramsAreNot, NEW p \in Programs, UpdateWrite(p)
  PROVE  ProfilesInvariant'
<1>1. /\ update[p].step = "loaded" /\ update[p].step # Nothing /\ lock = p
      /\ update[p].next \in Stores /\ Expected(profiles, update[p].mutation)
      /\ update[p].next = Mutated(profiles, update[p].mutation)
  BY UpdateIs DEF UpdateWrite, Nothing, ProfilesInvariant, LoadedIsCurrent
<1>2. /\ update[p].mutation \in Mutations /\ update \in [Programs -> Updates]
      /\ profiles \in Stores
  BY <1>1, UpdateIs DEF ProfilesInvariant, ProfilesTypeOK
<1>3. \A q \in Programs \ {p} : lock # q /\ update[q].step \notin {"locked", "loaded"}
  BY <1>1 DEF ProfilesInvariant, LoadedIsCurrent
<1>4. PICK step \in {"saved", "failed"} :
        /\ update' = [update EXCEPT ![p] = [update[p] EXCEPT !.step = step]]
        /\ profiles' \in {profiles, update[p].next}
  BY DEF UpdateWrite
<1> DEFINE j == [update[p] EXCEPT !.step = step]
<1>5. j \in Updates /\ j.step = step /\ j.next = update[p].next
  BY <1>1, UpdateIs DEF ProfilesInvariant, Updates
<1>6. lock' = Nothing /\ \A q \in Programs : lock' # q
  BY <1>1 DEF UpdateWrite, ProgramsAreNot, NothingAssumption
<1>7. AssignedIsDefined' /\ profiles' \in Stores
  BY <1>1, <1>2, <1>4, MutatedIs DEF ProfilesInvariant, AssignedIsDefined, ProgramsAreNot
<1>8. update' = [update EXCEPT ![p] = j]
  BY <1>4
<1> HIDE DEF j
<1>9. update'[p] = j /\ \A q \in Programs \ {p} : update'[q] = update[q]
  BY <1>2, <1>8
<1>10. ASSUME NEW q \in Programs
       PROVE  update'[q].step \notin {"locked", "loaded"}
  <2>1. CASE q = p
    BY <1>1, <1>4, <1>5, <1>9, <2>1
  <2>2. CASE q # p
    BY <1>3, <1>9, <2>2 DEF ProfilesInvariant, LoadedIsCurrent
  <2> QED
    BY <2>1, <2>2
<1>11. LoadedIsCurrent'
  BY <1>10 DEF LoadedIsCurrent
<1> QED
  BY <1>1, <1>5, <1>6, <1>7, <1>8, <1>11, JobMoves DEF UpdateWrite, Nothing

LEMMA UpdateReplyStep ==
  ASSUME ProfilesInvariant, ProgramsAreNot, NEW p \in Programs, UpdateReply(p)
  PROVE  ProfilesInvariant'
<1>1. /\ update[p].step \in {"saved", "failed"} /\ update[p].step # Nothing
      /\ ui \in [Programs -> Windows] /\ update \in [Programs -> Updates] /\ ui[p] \in Windows
  BY DEF UpdateReply, Nothing, ProfilesInvariant, ProfilesTypeOK
<1>2. /\ update[p].mutation \in Mutations
      /\ update[p].next \in Stores
  BY <1>1, UpdateIs DEF ProfilesInvariant, LoadedIsCurrent
<1>3. NoDialog \in Dialogs /\ NoDialog.kind = Nothing
  BY DEF Dialogs, NoDialog
<1>4. PICK u \in Windows :
        /\ ui' = [ui EXCEPT ![p] = u] /\ ~u.saving /\ u.busy = ui[p].busy
        /\ u.dialog \in {ui[p].dialog, NoDialog}
  <2>1. CASE update[p].step = "saved"
    <3> DEFINE j == update[p]
               u == [[ui[p] EXCEPT !.saving = FALSE] EXCEPT
                       !.error = FALSE, !.failed = NoDialog, !.store = j.next,
                       !.dialog = IF j.form /\ @.kind = "form" THEN NoDialog ELSE @]
    <3>1. ui' = [ui EXCEPT ![p] = u]
      BY <2>1 DEF UpdateReply, Window
    <3>2. /\ u \in Windows /\ ~u.saving /\ u.busy = ui[p].busy
          /\ u.dialog \in {ui[p].dialog, NoDialog}
      BY <1>1, <1>2, <1>3, <2>1 DEF Windows
    <3> QED
      BY <3>1, <3>2
  <2>2. CASE update[p].step = "failed"
    <3> DEFINE j == update[p]
               u == [[ui[p] EXCEPT !.saving = FALSE] EXCEPT
                       !.error = TRUE, !.failed = IF j.form THEN NoDialog ELSE j.mutation]
    <3>1. ui' = [ui EXCEPT ![p] = u]
      BY <2>2 DEF UpdateReply, Window
    <3>2. u \in Windows /\ ~u.saving /\ u.busy = ui[p].busy /\ u.dialog = ui[p].dialog
      BY <1>1, <1>2 DEF Windows
    <3> QED
      BY <3>1, <3>2
  <2> QED
    BY <1>1, <2>1, <2>2
<1>5. /\ NoUpdate \in Updates /\ NoUpdate.step = Nothing
      /\ update' = [update EXCEPT ![p] = NoUpdate]
      /\ UNCHANGED <<profiles, lock, configVars, apply, edits, applies, outside>>
  BY DEF UpdateReply, Updates, NoUpdate
<1>6. lock # p
  BY <1>1 DEF ProfilesInvariant, LocksAreHeld
<1>7. ProfilesTypeOK'
  BY <1>4, <1>5 DEF ProfilesInvariant, ProfilesTypeOK, configVars
<1>8. RepliesAreAwaited'
  BY <1>1, <1>4, <1>5 DEF ProfilesInvariant, RepliesAreAwaited
<1>9. AppliesAlone'
  <2>1. ui'[p] = u /\ \A q \in Programs \ {p} : ui'[q] = ui[q]
    BY <1>1, <1>4
  <2>2. u.busy = "applying" => u.dialog.kind \notin {"review", "confirm"}
    BY <1>3, <1>4 DEF ProfilesInvariant, AppliesAlone, Nothing
  <2> QED
    BY <1>4, <2>1, <2>2 DEF ProfilesInvariant, AppliesAlone
<1>10. LoadedIsCurrent'
  BY <1>1, <1>5 DEF ProfilesInvariant, LoadedIsCurrent, Nothing
<1>11. VerifiedIsCurrent' /\ AssignedIsDefined' /\ LocksAreHeld'
  BY <1>1, <1>5, <1>6
     DEF ProfilesInvariant, VerifiedIsCurrent, AssignedIsDefined, LocksAreHeld, configVars
<1> QED
  BY <1>7, <1>8, <1>9, <1>10, <1>11 DEF ProfilesInvariant

-----------------------------------------------------------------------------
(* The operation executor: execute_profile.                                *)

LaterSteps == {"lock", "verify", "write", "compare", "publish",
               "renamed", "refused", "published", "unverified", "failed"}

\* A write, by its step.
LEMMA ApplyIs ==
  ASSUME ProfilesTypeOK, NEW p \in Programs, apply[p].step # Nothing
  PROVE  LET b == apply[p]
         IN  /\ b # NoApply
             /\ b \in [step : {"check"} \cup LaterSteps, definition : Definition,
                       original : Configs]
BY DEF ProfilesTypeOK, Applications, NoApply, LaterSteps

\* A step of a write, with what it makes of the configuration and its lock.
LEMMA ApplyMoves ==
  ASSUME ProfilesInvariant, NEW p \in Programs, apply[p].step # Nothing,
         NEW step \in LaterSteps, Applied(p, step),
         UNCHANGED <<profiles, lock, gitWrites, ui, update, edits, applies, outside>>,
         config' \in Configs, configLock' \in Locks, robbed' \in BOOLEAN,
         ~robbed' /\ gitWrites => configLock'.by = Git,
         configLock'.by = p => step \in Holding,
         configLock'.by = p /\ step \in {"write", "compare", "publish"}
           => config' = apply[p].original,
         ~robbed' /\ step \in Holding => configLock'.by = p,
         ~robbed' /\ step \in {"compare", "publish"}
           => configLock'.text = apply[p].definition.identity,
         \A q \in Programs \ {p} :
           /\ configLock'.by = q => configLock.by = q /\ config' = config
           /\ ~robbed' => ~robbed /\ (configLock.by = q => configLock' = configLock)
  PROVE  ProfilesInvariant'
<1> DEFINE b == [apply[p] EXCEPT !.step = step]
<1>1. apply \in [Programs -> Applications] /\ apply' = [apply EXCEPT ![p] = b]
  BY DEF Applied, ProfilesInvariant, ProfilesTypeOK
<1>2. /\ b \in Applications /\ b.step = step /\ b.original = apply[p].original
      /\ b.definition = apply[p].definition
  BY ApplyIs DEF ProfilesInvariant, Applications, LaterSteps
<1>3. b # NoApply /\ apply[p] # NoApply
  BY <1>2 DEF NoApply, Nothing, LaterSteps
<1> HIDE DEF b
<1>4. apply'[p] = b /\ \A q \in Programs \ {p} : apply'[q] = apply[q]
  BY <1>1
<1>5. ProfilesTypeOK'
  BY <1>1, <1>2 DEF ProfilesInvariant, ProfilesTypeOK
<1>6. RepliesAreAwaited' /\ AppliesAlone'
  BY <1>3, <1>4 DEF ProfilesInvariant, RepliesAreAwaited, AppliesAlone
<1>7. LoadedIsCurrent' /\ AssignedIsDefined'
  BY DEF ProfilesInvariant, LoadedIsCurrent, AssignedIsDefined, Expected, Mutated
<1>8. ASSUME NEW q \in Programs
      PROVE  /\ configLock'.by = q => apply'[q].step \in Holding
             /\ ~robbed' /\ apply'[q].step \in Holding => configLock'.by = q
             /\ configLock'.by = q /\ apply'[q].step \in {"write", "compare", "publish"}
                  => config' = apply'[q].original
             /\ ~robbed' /\ apply'[q].step \in {"compare", "publish"}
                  => configLock'.text = apply'[q].definition.identity
  <2>1. CASE q = p
    BY <1>2, <1>4, <2>1
  <2>2. CASE q # p
    BY <1>4, <2>2 DEF ProfilesInvariant, VerifiedIsCurrent, LocksAreHeld, Holding
  <2> QED
    BY <2>1, <2>2
<1>9. VerifiedIsCurrent' /\ LocksAreHeld'
  BY <1>8 DEF ProfilesInvariant, VerifiedIsCurrent, LocksAreHeld
<1> QED
  BY <1>5, <1>6, <1>7, <1>9 DEF ProfilesInvariant

\* Who holds the configuration's lock, and what he knows.
LEMMA ApplyHolds ==
  ASSUME ProfilesInvariant, NEW p \in Programs
  PROVE  /\ config \in Configs /\ configLock \in Locks /\ robbed \in BOOLEAN
         /\ configLock.by = p => apply[p].step \in Holding
         /\ ~robbed /\ apply[p].step \in Holding => configLock.by = p
         /\ ~robbed /\ gitWrites => configLock.by = Git
         /\ configLock.by = p /\ apply[p].step \in {"write", "compare", "publish"}
              => config = apply[p].original
         /\ ~robbed /\ apply[p].step \in {"compare", "publish"}
              => configLock.text = apply[p].definition.identity
BY DEF ProfilesInvariant, ProfilesTypeOK, VerifiedIsCurrent, LocksAreHeld

\* Taking the lock file leaves none, and says whose it was.
LEMMA TakesIs ==
  ASSUME ProfilesInvariant, ProgramsAreNot, NEW who \in Programs \cup {Git}, Takes(who)
  PROVE  /\ configLock' \in Locks /\ robbed' \in BOOLEAN
         /\ \A q \in Programs : configLock'.by # q
         /\ ~robbed' => /\ ~robbed /\ configLock.by \in {who, Nothing, Left}
                        /\ gitWrites => who = Git
                        /\ \A q \in Programs \ {who} : configLock.by # q
<1>1. configLock' = NoLock /\ robbed' = (robbed \/ configLock.by \notin {who, Nothing, Left})
  BY DEF Takes
<1>2. NoLock \in Locks /\ NoLock.by = Nothing
  BY DEF NoLock, Locks, Configs
<1>3. robbed' \in BOOLEAN /\ (~robbed' => ~robbed /\ configLock.by \in {who, Nothing, Left})
  BY <1>1 DEF ProfilesInvariant, ProfilesTypeOK
<1>4. ~robbed' /\ gitWrites => who = Git
  BY <1>3 DEF ProfilesInvariant, VerifiedIsCurrent, Git, Nothing, Left
<1> QED
  BY <1>1, <1>2, <1>3, <1>4 DEF ProgramsAreNot, NothingAssumption, LeftAssumption

LEMMA ApplyCheckStep ==
  ASSUME ProfilesInvariant, ProgramsAreNot, NEW p \in Programs, ApplyCheck(p)
  PROVE  ProfilesInvariant'
<1>1. PICK step \in {"lock", "failed"} : Applied(p, step)
  BY DEF ApplyCheck
<1>2. apply[p].step = "check" /\ apply[p].step # Nothing /\ configLock.by # p
  BY ApplyHolds DEF ApplyCheck, Nothing, Holding
<1>3. UNCHANGED <<config, configLock, gitWrites, robbed>>
  BY DEF ApplyCheck, configVars
<1>4. step \in LaterSteps \ Holding
  BY DEF LaterSteps, Holding
<1> QED
  BY <1>1, <1>2, <1>3, <1>4, ApplyHolds, ApplyMoves DEF ApplyCheck, Holding

LEMMA ApplyLockStep ==
  ASSUME ProfilesInvariant, ProgramsAreNot, NEW p \in Programs, ApplyLock(p)
  PROVE  ProfilesInvariant'
<1>1. apply[p].step = "lock" /\ apply[p].step # Nothing /\ configLock.by # p
  BY ApplyHolds DEF ApplyLock, Nothing, Holding
<1>2. CASE configLock.by = Nothing
  <2>1. Applied(p, "verify") /\ configLock' = [by |-> p, text |-> Nothing]
    BY <1>2 DEF ApplyLock
  <2>2. configLock' \in Locks /\ configLock'.by = p
    BY <2>1 DEF Locks, Configs
  <2>3. /\ \A q \in Programs : configLock.by # q
        /\ ~robbed => ~gitWrites
    BY <1>2, ApplyHolds DEF ProgramsAreNot, NothingAssumption, Nothing, Git
  <2>4. "verify" \in LaterSteps /\ "verify" \in Holding
    BY DEF LaterSteps, Holding
  <2> QED
    BY <1>1, <2>1, <2>2, <2>3, <2>4, ApplyHolds, ApplyMoves DEF ApplyLock
<1>3. CASE configLock.by # Nothing
  <2>1. Applied(p, "failed") /\ configLock' = configLock
    BY <1>3 DEF ApplyLock
  <2>2. "failed" \in LaterSteps /\ "failed" \notin Holding
    BY DEF LaterSteps, Holding
  <2> QED
    BY <1>1, <2>1, <2>2, ApplyHolds, ApplyMoves DEF ApplyLock
<1> QED
  BY <1>2, <1>3

\* A step of who has the lock that leaves the configuration and the lock.
LEMMA ApplyStays ==
  ASSUME ProfilesInvariant, ProgramsAreNot, NEW p \in Programs, apply[p].step \in Holding,
         NEW step \in Holding, Applied(p, step),
         UNCHANGED <<profiles, lock, configVars, ui, update, edits, applies, outside>>,
         step \in {"write", "compare", "publish"} => config = apply[p].original,
         step \in {"compare", "publish"} => apply[p].step = "compare"
  PROVE  ProfilesInvariant'
<1>1. apply[p].step # Nothing /\ step \in LaterSteps
  BY DEF Nothing, Holding, LaterSteps
<1>2. UNCHANGED <<config, configLock, gitWrites, robbed>>
  BY DEF configVars
<1> QED
  BY <1>1, <1>2, ApplyHolds, ApplyMoves

LEMMA ApplyVerifyStep ==
  ASSUME ProfilesInvariant, ProgramsAreNot, NEW p \in Programs, ApplyVerify(p)
  PROVE  ProfilesInvariant'
<1>1. PICK step \in {"write", "refused"} :
        Applied(p, step) /\ (step = "write" => config = apply[p].original)
  BY DEF ApplyVerify
<1> QED
  BY <1>1, ApplyStays DEF ApplyVerify, Holding

LEMMA ApplyCompareStep ==
  ASSUME ProfilesInvariant, ProgramsAreNot, NEW p \in Programs, ApplyCompare(p)
  PROVE  ProfilesInvariant'
<1>1. PICK step \in {"publish", "refused"} :
        Applied(p, step) /\ (step = "publish" => config = apply[p].original)
  BY DEF ApplyCompare
<1> QED
  BY <1>1, ApplyStays DEF ApplyCompare, Holding

LEMMA ApplyWriteStep ==
  ASSUME ProfilesInvariant, ProgramsAreNot, NEW p \in Programs, ApplyWrite(p)
  PROVE  ProfilesInvariant'
<1>1. /\ apply[p].step = "write" /\ apply[p].step # Nothing /\ apply[p].step \in Holding
      /\ ~robbed => configLock.by = p
  BY ApplyHolds DEF ApplyWrite, Nothing, Holding
<1>2. CASE configLock.by # Nothing
  <2> DEFINE text == apply[p].definition.identity
  <2>1. Applied(p, "compare") /\ configLock' = [configLock EXCEPT !.text = text]
    BY <1>2 DEF ApplyWrite
  <2>2. text \in Configs
    BY <1>1, ApplyIs DEF ProfilesInvariant, Definition, Configs
  <2>3. configLock' \in Locks /\ configLock'.by = configLock.by /\ configLock'.text = text
    BY <2>1, <2>2, ApplyHolds DEF Locks
  <2>4. "compare" \in LaterSteps /\ "compare" \in Holding
    BY DEF LaterSteps, Holding
  <2> QED
    BY <1>1, <2>1, <2>3, <2>4, ApplyHolds, ApplyMoves DEF ApplyWrite
<1>3. CASE configLock.by = Nothing
  <2>1. Applied(p, "refused") /\ UNCHANGED configVars
    BY <1>3 DEF ApplyWrite, configVars
  <2> QED
    BY <1>1, <2>1, ApplyStays DEF ApplyWrite, Holding
<1> QED
  BY <1>2, <1>3

LEMMA ApplyPublishStep ==
  ASSUME ProfilesInvariant, ProgramsAreNot, NEW p \in Programs, ApplyPublish(p)
  PROVE  ProfilesInvariant'
<1>1. apply[p].step # Nothing /\ apply[p].step \in Holding
  BY DEF ApplyPublish, Nothing, Holding
<1>2. CASE Renames(p) /\ Applied(p, "renamed")
  <2>1. Takes(p) /\ config' \in Configs
    BY <1>2, ApplyHolds DEF Renames, Locks
  <2>2. "renamed" \in LaterSteps /\ "renamed" \notin Holding
    BY DEF LaterSteps, Holding
  <2>3. ~robbed' => ~gitWrites
    BY <2>1, TakesIs DEF ProgramsAreNot, LeftAssumption
  <2> QED
    BY <1>1, <1>2, <2>1, <2>2, <2>3, TakesIs, ApplyMoves DEF ApplyPublish, Holding
<1>3. CASE configLock.by = Nothing /\ Applied(p, "refused") /\ UNCHANGED <<config, configLock, robbed>>
  <2>1. UNCHANGED configVars
    BY <1>3 DEF ApplyPublish, configVars
  <2> QED
    BY <1>1, <1>3, <2>1, ApplyStays DEF ApplyPublish, Holding
<1> QED
  BY <1>2, <1>3 DEF ApplyPublish

LEMMA ApplyEndStep ==
  ASSUME ProfilesInvariant, ProgramsAreNot, NEW p \in Programs, ApplyEnd(p)
  PROVE  ProfilesInvariant'
<1>1. PICK step \in {"published", "unverified", "failed"} : Applied(p, step)
  BY DEF ApplyEnd
<1>2. apply[p].step # Nothing /\ step \in LaterSteps \ Holding
  BY DEF ApplyEnd, Nothing, LaterSteps, Holding
<1>3. Takes(p) /\ config' \in Configs
  BY ApplyHolds DEF ApplyEnd
<1>4. ~robbed' => ~gitWrites
  BY <1>3, TakesIs DEF ProgramsAreNot, LeftAssumption
<1> QED
  BY <1>1, <1>2, <1>3, <1>4, TakesIs, ApplyMoves DEF ApplyEnd, Holding

LEMMA ApplyFailStep ==
  ASSUME ProfilesInvariant, ProgramsAreNot, NEW p \in Programs, ApplyFail(p)
  PROVE  ProfilesInvariant'
<1>1. CASE apply[p].step \in {"check", "lock"}
  <2>1. Applied(p, "failed")
    BY <1>1 DEF ApplyFail
  <2>2. apply[p].step # Nothing /\ configLock.by # p
    BY <1>1, ApplyHolds DEF Nothing, Holding
  <2>3. UNCHANGED <<config, configLock, gitWrites, robbed>>
    BY DEF ApplyFail, configVars
  <2>4. "failed" \in LaterSteps /\ "failed" \notin Holding
    BY DEF LaterSteps, Holding
  <2> QED
    BY <2>1, <2>2, <2>3, <2>4, ApplyHolds, ApplyMoves DEF ApplyFail
<1>2. CASE apply[p].step \notin {"check", "lock"}
  <2>1. Applied(p, "refused") /\ apply[p].step \in Holding
    BY <1>2 DEF ApplyFail, Holding
  <2> QED
    BY <2>1, ApplyStays DEF ApplyFail, Holding
<1> QED
  BY <1>1, <1>2

LEMMA ConfirmApplyStep ==
  ASSUME ProfilesInvariant, ProgramsAreNot, NEW p \in Programs, ConfirmApply(p)
  PROVE  ProfilesInvariant'
<1> DEFINE d == ui[p].dialog
           u == [ui[p] EXCEPT !.busy = "applying", !.dialog = NoDialog]
           b == [step |-> "check", definition |-> d.definition, original |-> d.original]
<1>1. /\ ui \in [Programs -> Windows] /\ ui[p] \in Windows
      /\ apply \in [Programs -> Applications]
      /\ d.kind = "confirm" /\ d.definition \in Definition /\ d.original \in Configs
  BY DialogIs DEF ConfirmApply, ProfilesInvariant, ProfilesTypeOK
<1>2. NoDialog \in Dialogs /\ NoDialog.kind = Nothing
  BY DEF Dialogs, NoDialog
<1>3. /\ u \in Windows /\ u.saving = ui[p].saving /\ u.busy = "applying"
      /\ u.dialog = NoDialog
  BY <1>1, <1>2 DEF Windows
<1>4. ~ui[p].saving /\ apply[p] = NoApply
  BY <1>1 DEF ConfirmApply, ProfilesInvariant, AppliesAlone, RepliesAreAwaited, Nothing
<1>5. b \in Applications /\ b.step = "check" /\ b # NoApply
  BY <1>1 DEF Applications, NoApply, Nothing
<1>6. ui' = [ui EXCEPT ![p] = u] /\ apply' = [apply EXCEPT ![p] = b]
  BY DEF ConfirmApply, Window
<1> HIDE DEF u, b
<1>7. /\ ui'[p] = u /\ apply'[p] = b
      /\ \A q \in Programs \ {p} : ui'[q] = ui[q] /\ apply'[q] = apply[q]
  BY <1>1, <1>6
<1>8. ProfilesTypeOK'
  BY <1>3, <1>5, <1>6 DEF ConfirmApply, ProfilesInvariant, ProfilesTypeOK, configVars
<1>9. RepliesAreAwaited'
  BY <1>3, <1>5, <1>7 DEF ConfirmApply, ProfilesInvariant, RepliesAreAwaited
<1>10. AppliesAlone'
  BY <1>2, <1>3, <1>4, <1>7 DEF ProfilesInvariant, AppliesAlone, Nothing
<1>11. LoadedIsCurrent' /\ AssignedIsDefined'
  BY DEF ConfirmApply, ProfilesInvariant, LoadedIsCurrent, AssignedIsDefined, Expected, Mutated
<1>12. configLock.by # p /\ apply[p].step \notin Holding
  BY <1>4, ApplyHolds DEF NoApply, Nothing, Holding
<1>13. VerifiedIsCurrent' /\ LocksAreHeld'
  BY <1>5, <1>7, <1>12
     DEF ConfirmApply, ProfilesInvariant, VerifiedIsCurrent, LocksAreHeld, Holding, configVars
<1> QED
  BY <1>8, <1>9, <1>10, <1>11, <1>13 DEF ProfilesInvariant

LEMMA ApplyReplyStep ==
  ASSUME ProfilesInvariant, ProgramsAreNot, NEW p \in Programs, ApplyReply(p)
  PROVE  ProfilesInvariant'
<1> DEFINE d == apply[p].definition
           u == [ui[p] EXCEPT !.busy = Nothing]
           m == [kind |-> "assign", id |-> d.id, identity |-> d.identity]
<1>1. /\ apply[p].step \in {"published", "unverified", "failed"} /\ apply[p].step # Nothing
      /\ ui \in [Programs -> Windows] /\ ui[p] \in Windows
      /\ update \in [Programs -> Updates] /\ apply \in [Programs -> Applications]
  BY DEF ApplyReply, Nothing, ProfilesInvariant, ProfilesTypeOK
<1>2. m \in Mutations /\ apply[p] # NoApply
  BY <1>1, ApplyIs DEF ProfilesInvariant, Mutations, Definition
<1>3. ui[p].busy = "applying" /\ ~ui[p].saving /\ update[p] = NoUpdate
  BY <1>2 DEF ProfilesInvariant, RepliesAreAwaited, AppliesAlone, Nothing
<1>4. /\ u \in Windows /\ u.saving = ui[p].saving /\ u.busy = Nothing
      /\ u.dialog = ui[p].dialog
  BY <1>1 DEF Windows
<1>5. NoApply \in Applications /\ NoApply.step = Nothing
  BY DEF Applications, NoApply
<1>6. /\ apply' = [apply EXCEPT ![p] = NoApply]
      /\ UNCHANGED <<profiles, lock, configVars, edits, applies, outside>>
  BY DEF ApplyReply
<1>7. configLock.by # p
  BY <1>1, ApplyHolds DEF Holding
<1>8. AssignedIsDefined' /\ VerifiedIsCurrent'
  BY <1>1, <1>5, <1>6
     DEF ProfilesInvariant, AssignedIsDefined, VerifiedIsCurrent, Nothing, configVars
<1>9. \A q \in Programs : /\ configLock'.by = q => apply'[q].step \in Holding
                          /\ ~robbed' /\ apply'[q].step \in Holding => configLock'.by = q
  BY <1>1, <1>5, <1>6, <1>7 DEF ProfilesInvariant, LocksAreHeld, Holding, Nothing, configVars
<1>10. CASE apply[p].step = "published"
  <2>1. Saving(p, u, m)
    BY <1>10 DEF ApplyReply
  <2> HIDE DEF u, m
  <2>2. /\ ui' \in [Programs -> Windows] /\ update' \in [Programs -> Updates]
        /\ ui'[p].saving /\ ui'[p].busy = u.busy /\ ui'[p].dialog = u.dialog
        /\ update'[p] # NoUpdate
        /\ \A q \in Programs \ {p} : ui'[q] = ui[q] /\ update'[q] = update[q]
        /\ \A q \in Programs : lock = q => update'[q].step \in {"locked", "loaded"}
        /\ LoadedIsCurrent'
    BY <1>2, <1>4, <1>6, <2>1, SavingKeeps
  <2>3. ProfilesTypeOK'
    BY <1>1, <1>5, <1>6, <2>2 DEF ProfilesInvariant, ProfilesTypeOK, configVars
  <2>4. RepliesAreAwaited'
    BY <1>1, <1>4, <1>6, <2>2 DEF ProfilesInvariant, RepliesAreAwaited, Nothing
  <2>5. ui'[p].dialog.kind \notin {"review", "confirm"}
    BY <1>3, <1>4, <2>2 DEF ProfilesInvariant, AppliesAlone
  <2>6. AppliesAlone'
    BY <1>4, <2>2, <2>5 DEF ProfilesInvariant, AppliesAlone
  <2>7. LocksAreHeld'
    BY <1>6, <1>9, <2>2 DEF LocksAreHeld
  <2> QED
    BY <1>8, <2>2, <2>3, <2>4, <2>6, <2>7 DEF ProfilesInvariant
<1>11. CASE apply[p].step # "published"
  <2>1. ui' = [ui EXCEPT ![p] = u] /\ update' = update
    BY <1>11 DEF ApplyReply, Window
  <2> HIDE DEF u
  <2>2. ui'[p] = u /\ \A q \in Programs \ {p} : ui'[q] = ui[q]
    BY <1>1, <2>1
  <2>3. ProfilesTypeOK'
    BY <1>1, <1>4, <1>5, <1>6, <2>1 DEF ProfilesInvariant, ProfilesTypeOK, configVars
  <2>4. RepliesAreAwaited'
    BY <1>1, <1>4, <1>6, <2>1, <2>2 DEF ProfilesInvariant, RepliesAreAwaited, Nothing
  <2>5. AppliesAlone'
    BY <1>3, <1>4, <2>2 DEF ProfilesInvariant, AppliesAlone
  <2>6. LoadedIsCurrent' /\ LocksAreHeld'
    BY <1>6, <1>9, <2>1 DEF ProfilesInvariant, LoadedIsCurrent, LocksAreHeld
  <2> QED
    BY <1>8, <2>3, <2>4, <2>5, <2>6 DEF ProfilesInvariant
<1> QED
  BY <1>1, <1>10, <1>11

\* A step of Git beside the programs.
LEMMA GitMoves ==
  ASSUME ProfilesInvariant,
         UNCHANGED <<profiles, lock, ui, update, apply, edits, applies>>,
         config' \in Configs, configLock' \in Locks, robbed' \in BOOLEAN,
         gitWrites' \in BOOLEAN, outside' \in 0 .. MaxOutside,
         ~robbed' /\ gitWrites' => configLock'.by = Git,
         \A q \in Programs :
           /\ configLock'.by = q => configLock.by = q /\ config' = config
           /\ ~robbed' => ~robbed /\ (configLock.by = q => configLock' = configLock)
  PROVE  ProfilesInvariant'
<1>1. ProfilesTypeOK'
  BY DEF ProfilesInvariant, ProfilesTypeOK
<1>2. RepliesAreAwaited' /\ AppliesAlone' /\ LoadedIsCurrent' /\ AssignedIsDefined'
  BY DEF ProfilesInvariant, RepliesAreAwaited, AppliesAlone, LoadedIsCurrent,
         AssignedIsDefined, Expected, Mutated
<1>3. VerifiedIsCurrent' /\ LocksAreHeld'
  BY DEF ProfilesInvariant, VerifiedIsCurrent, LocksAreHeld, Holding
<1> QED
  BY <1>1, <1>2, <1>3 DEF ProfilesInvariant

LEMMA GitLockStep ==
  ASSUME ProfilesInvariant, ProgramsAreNot, NEW identity \in Identities, GitLock(identity)
  PROVE  ProfilesInvariant'
<1>1. configLock' \in Locks /\ configLock'.by = Git
  BY DEF GitLock, Locks, Configs
<1>2. \A q \in Programs : configLock.by # q /\ configLock'.by # q
  BY <1>1 DEF GitLock, ProgramsAreNot, NothingAssumption, LeftAssumption
<1>3. /\ outside' \in 0 .. MaxOutside /\ gitWrites' \in BOOLEAN
      /\ config \in Configs /\ robbed \in BOOLEAN
  BY DEF GitLock, ProfilesInvariant, ProfilesTypeOK, ProgramsAreNot, ProfilesAssumption
<1> QED
  BY <1>1, <1>2, <1>3, GitMoves DEF GitLock

LEMMA GitPublishStep ==
  ASSUME ProfilesInvariant, ProgramsAreNot, GitPublish
  PROVE  ProfilesInvariant'
<1>1. /\ outside \in 0 .. MaxOutside /\ gitWrites' = FALSE
      /\ config \in Configs /\ robbed \in BOOLEAN /\ configLock \in Locks
  BY DEF GitPublish, ProfilesInvariant, ProfilesTypeOK
<1>2. CASE Renames(Git)
  <2>1. Takes(Git) /\ config' \in Configs
    BY <1>1, <1>2 DEF Renames, Locks
  <2>2. Git \notin Programs
    BY DEF ProgramsAreNot, LeftAssumption
  <2> QED
    BY <1>1, <2>1, <2>2, TakesIs, GitMoves DEF GitPublish
<1>3. CASE UNCHANGED <<config, configLock, robbed>>
  BY <1>1, <1>3, GitMoves DEF GitPublish
<1> QED
  BY <1>2, <1>3 DEF GitPublish

LEMMA RestartProgramStep ==
  ASSUME ProfilesInvariant, ProgramsAreNot, NEW p \in Programs, RestartProgram(p)
  PROVE  ProfilesInvariant'
<1> DEFINE u == NewWindow(profiles)
<1>1. /\ ui \in [Programs -> Windows] /\ update \in [Programs -> Updates]
      /\ apply \in [Programs -> Applications] /\ profiles \in Stores
      /\ configLock \in Locks
  BY DEF ProfilesInvariant, ProfilesTypeOK
<1>2. u \in Windows /\ ~u.saving /\ u.busy = Nothing
  BY <1>1 DEF NewWindow, Windows, Dialogs
<1>3. /\ NoUpdate \in Updates /\ NoUpdate.step = Nothing
      /\ NoApply \in Applications /\ NoApply.step = Nothing
  BY DEF Updates, NoUpdate, Applications, NoApply
<1>4. /\ ui' = [ui EXCEPT ![p] = u] /\ update' = [update EXCEPT ![p] = NoUpdate]
      /\ apply' = [apply EXCEPT ![p] = NoApply]
      /\ UNCHANGED <<profiles, config, gitWrites, robbed, edits, applies>>
  BY DEF RestartProgram, Window
<1> HIDE DEF u
<1>5. /\ ui'[p] = u /\ update'[p] = NoUpdate /\ apply'[p] = NoApply
      /\ \A q \in Programs \ {p} :
            ui'[q] = ui[q] /\ update'[q] = update[q] /\ apply'[q] = apply[q]
  BY <1>1, <1>4
<1>6. /\ lock' = IF lock = p THEN Nothing ELSE lock
      /\ configLock' = IF configLock.by = p THEN [configLock EXCEPT !.by = Left] ELSE configLock
      /\ outside' \in 0 .. MaxOutside
  BY DEF RestartProgram, ProfilesInvariant, ProfilesTypeOK, ProgramsAreNot, ProfilesAssumption
<1>7. /\ configLock' \in Locks /\ configLock'.by # p /\ lock' # p
      /\ \A q \in Programs \ {p} : /\ (lock' = q) <=> (lock = q)
                                   /\ (configLock'.by = q) <=> (configLock.by = q)
                                   /\ configLock.by = q => configLock' = configLock
      /\ configLock.by = Git => configLock' = configLock
  <2>1. \A q \in Programs : q # Left /\ q # Nothing /\ q # Git
    BY DEF ProgramsAreNot, NothingAssumption, LeftAssumption
  <2>2. CASE configLock.by = p
    <3>1. configLock' \in Locks /\ configLock'.by = Left
      BY <1>1, <1>6, <2>2 DEF Locks
    <3> QED
      BY <1>6, <2>1, <2>2, <3>1
  <2>3. CASE configLock.by # p
    BY <1>1, <1>6, <2>1, <2>3
  <2> QED
    BY <2>2, <2>3
<1>8. ProfilesTypeOK'
  <2>1. lock' \in Programs \cup {Nothing}
    BY <1>6 DEF ProfilesInvariant, ProfilesTypeOK
  <2> QED
    BY <1>2, <1>3, <1>4, <1>6, <1>7, <2>1 DEF ProfilesInvariant, ProfilesTypeOK
<1>9. RepliesAreAwaited'
  BY <1>2, <1>5 DEF ProfilesInvariant, RepliesAreAwaited, Nothing
<1>10. AppliesAlone'
  BY <1>2, <1>5 DEF ProfilesInvariant, AppliesAlone, Nothing
<1>11. ASSUME NEW q \in Programs
       PROVE  /\ update'[q].step \in {"locked", "loaded"} <=> lock' = q
              /\ update'[q].step # Nothing => update'[q] = update[q]
              /\ configLock'.by = q => apply'[q].step \in Holding
              /\ ~robbed' /\ apply'[q].step \in Holding => configLock'.by = q
              /\ configLock'.by = q /\ apply'[q].step \in {"write", "compare", "publish"}
                   => config' = apply'[q].original
              /\ ~robbed' /\ apply'[q].step \in {"compare", "publish"}
                   => configLock'.text = apply'[q].definition.identity
  <2>1. CASE q = p
    BY <1>3, <1>5, <1>7, <2>1 DEF Nothing, Holding
  <2>2. CASE q # p
    <3>1. update'[q] = update[q] /\ apply'[q] = apply[q]
      BY <1>5, <2>2
    <3>2. update[q].step \in {"locked", "loaded"} <=> lock = q
      BY DEF ProfilesInvariant, LoadedIsCurrent, LocksAreHeld
    <3>3. update'[q].step \in {"locked", "loaded"} <=> lock' = q
      BY <1>7, <2>2, <3>1, <3>2
    <3> QED
      BY <1>4, <1>7, <2>2, <3>1, <3>3, ApplyHolds DEF Holding
  <2> QED
    BY <2>1, <2>2
<1>12. LoadedIsCurrent'
  BY <1>4, <1>11 DEF ProfilesInvariant, LoadedIsCurrent, Nothing
<1>13. VerifiedIsCurrent' /\ LocksAreHeld' /\ AssignedIsDefined'
  BY <1>4, <1>7, <1>11
     DEF ProfilesInvariant, VerifiedIsCurrent, LocksAreHeld, AssignedIsDefined, Nothing
<1> QED
  BY <1>8, <1>9, <1>10, <1>12, <1>13 DEF ProfilesInvariant

-----------------------------------------------------------------------------
(* The profiles: what each step does.                                      *)

LEMMA ProfilesInitInv ==
  ASSUME ProgramsAreNot
  PROVE  ProfilesInit => ProfilesInvariant
<1> SUFFICES ASSUME ProfilesInit
             PROVE  ProfilesInvariant
  OBVIOUS
<1>1. profiles \in Stores /\ profiles.assigned = Nothing
  BY DEF ProfilesInit
<1>2. /\ NewWindow(profiles) \in Windows /\ ~NewWindow(profiles).saving
      /\ NewWindow(profiles).busy = Nothing
  BY <1>1 DEF NewWindow, Windows, Dialogs
<1>3. /\ NoUpdate \in Updates /\ NoUpdate.step = Nothing
      /\ NoApply \in Applications /\ NoApply.step = Nothing
  BY DEF Updates, NoUpdate, Applications, NoApply
<1>4. \A p \in Programs : /\ ui[p] = NewWindow(profiles) /\ update[p] = NoUpdate
                          /\ apply[p] = NoApply /\ lock # p /\ configLock.by # p
  BY DEF ProfilesInit, NoLock, ProgramsAreNot, NothingAssumption
<1> HIDE DEF NewWindow
<1>5. ProfilesTypeOK
  <2>1. /\ configLock \in Locks /\ config \in Configs
        /\ gitWrites \in BOOLEAN /\ robbed \in BOOLEAN
    BY DEF ProfilesInit, NoLock, Locks, Configs
  <2> QED
    BY <1>1, <1>2, <1>3, <2>1
       DEF ProfilesInit, ProfilesTypeOK, ProgramsAreNot, ProfilesAssumption
<1>6. RepliesAreAwaited /\ AppliesAlone
  BY <1>2, <1>4 DEF RepliesAreAwaited, AppliesAlone, Nothing
<1>7. LoadedIsCurrent /\ VerifiedIsCurrent /\ LocksAreHeld
  BY <1>3, <1>4 DEF ProfilesInit, LoadedIsCurrent, VerifiedIsCurrent, LocksAreHeld, Nothing, Holding
<1>8. AssignedIsDefined
  BY <1>1 DEF AssignedIsDefined
<1> QED
  BY <1>5, <1>6, <1>7, <1>8 DEF ProfilesInvariant

LEMMA ProfilesStep ==
  ASSUME ProfilesInvariant, ProgramsAreNot, [ProfilesNext]_profilesVars
  PROVE  ProfilesInvariant'
<1>1. CASE UNCHANGED profilesVars
  BY <1>1 DEF profilesVars, ProfilesInvariant, ProfilesTypeOK, RepliesAreAwaited, AppliesAlone,
     LoadedIsCurrent, VerifiedIsCurrent, LocksAreHeld, AssignedIsDefined, Expected, Mutated,
     configVars
<1>2. ASSUME NEW p \in Programs, Executors(p)
      PROVE  ProfilesInvariant'
  BY <1>2, UpdateLockStep, UpdateLoadStep, UpdateWriteStep, UpdateReplyStep, ProfilePlanStep,
     ApplyCheckStep, ApplyLockStep, ApplyVerifyStep, ApplyWriteStep, ApplyCompareStep,
     ApplyPublishStep, ApplyEndStep, ApplyReplyStep
     DEF Executors
<1> QED
  BY <1>1, <1>2, EditProfileStep, SubmitFormStep, DeleteProfileStep, PrepareProfileStep,
     ConfirmDeleteStep, CancelDialogStep, RetryStep, ConfirmApplyStep, ReviewFailsStep,
     ApplyFailStep, RestartProgramStep, GitLockStep, GitPublishStep
     DEF ProfilesNext

\* The file changes where a loaded job writes it.
LEMMA OthersAreKept ==
  ASSUME ProfilesInvariant, ProgramsAreNot, ProfilesNext
  PROVE  UpdateKeepsOthers
<1> SUFFICES ASSUME profiles' # profiles
             PROVE  \E p \in Programs :
                      LET m == update[p].mutation
                      IN  /\ update[p].step = "loaded" /\ update'[p].step = "saved"
                          /\ Expected(profiles, m)
                          /\ \A id \in Ids \ {m.id} : profiles'.defs[id] = profiles.defs[id]
                          /\ m.kind = "save" => profiles'.assigned = profiles.assigned
  BY Zenon DEF UpdateKeepsOthers
<1>1. PICK p \in Programs : UpdateWrite(p)
  <2>1. ASSUME NEW q \in Programs,
               \/ \E id \in Ids : EditProfile(q, id)
               \/ \E identity \in Identities : SubmitForm(q, identity)
               \/ \E d \in Definition : DeleteProfile(q, d) \/ PrepareProfile(q, d)
               \/ ConfirmDelete(q) \/ CancelDialog(q) \/ Retry(q) \/ ConfirmApply(q)
               \/ ReviewFails(q) \/ ApplyFail(q) \/ RestartProgram(q)
        PROVE  profiles' = profiles
    BY <2>1 DEF EditProfile, SubmitForm, DeleteProfile, PrepareProfile, ConfirmDelete, CancelDialog,
                Retry, ConfirmApply, ReviewFails, ApplyFail, RestartProgram
  <2>2. ASSUME NEW q \in Programs,
               \/ UpdateLock(q) \/ UpdateLoad(q) \/ UpdateReply(q) \/ ProfilePlan(q)
               \/ ApplyCheck(q) \/ ApplyLock(q) \/ ApplyVerify(q) \/ ApplyWrite(q)
               \/ ApplyCompare(q) \/ ApplyPublish(q) \/ ApplyEnd(q) \/ ApplyReply(q)
        PROVE  profiles' = profiles
    BY <2>2 DEF UpdateLock, UpdateLoad, UpdateReply, ProfilePlan, ApplyCheck, ApplyLock,
                ApplyVerify, ApplyWrite, ApplyCompare, ApplyPublish, ApplyEnd, ApplyReply
  <2>3. ASSUME GitPublish \/ \E identity \in Identities : GitLock(identity)
        PROVE  profiles' = profiles
    BY <2>3 DEF GitLock, GitPublish
  <2> QED
    BY <2>1, <2>2, <2>3 DEF ProfilesNext, Executors
<1>2. /\ update[p].step = "loaded" /\ profiles' = update[p].next
      /\ update' = [update EXCEPT ![p].step = "saved"]
  BY <1>1 DEF UpdateWrite
<1>3. /\ Expected(profiles, update[p].mutation)
      /\ profiles' = Mutated(profiles, update[p].mutation)
      /\ update \in [Programs -> Updates] /\ profiles \in Stores
  BY <1>2 DEF ProfilesInvariant, LoadedIsCurrent, ProfilesTypeOK
<1>4. update[p].mutation \in Mutations /\ update'[p].step = "saved"
  BY <1>2, <1>3, UpdateIs DEF ProfilesInvariant, Nothing
<1> QED
  BY <1>2, <1>3, <1>4, MutatedIs DEF ProfilesInvariant, AssignedIsDefined, ProgramsAreNot

\* A rename is that of who compared the configuration, and of his own file
\* while no lock was taken from another.
LEMMA WritesAreReviewed ==
  ASSUME ProfilesInvariant, ProgramsAreNot, ProfilesNext
  PROVE  PublishesReviewed
<1> SUFFICES ASSUME NEW p \in Programs, apply[p].step = "publish", apply'[p].step = "renamed"
             PROVE  /\ configLock.by = p => config = apply[p].original
                    /\ ~robbed => /\ configLock.by = p
                                  /\ config' = apply[p].definition.identity
  BY DEF PublishesReviewed
<1>1. apply \in [Programs -> Applications] /\ apply' # apply
  BY DEF ProfilesInvariant, ProfilesTypeOK
<1>2. ASSUME NEW q \in Programs, NEW step \in LaterSteps, Applied(q, step)
      PROVE  q = p /\ step = "renamed"
  <2>1. q = p
    BY <1>1, <1>2 DEF Applied
  <2>2. apply'[p] = [apply[p] EXCEPT !.step = step]
    BY <1>1, <1>2, <2>1 DEF Applied
  <2>3. apply'[p].step = step
    BY <2>2, ApplyIs DEF ProfilesInvariant, Nothing
  <2> QED
    BY <2>1, <2>3
<1>3. Renames(p)
  <2>1. ASSUME NEW q \in Programs, ConfirmApply(q) \/ ApplyReply(q) \/ RestartProgram(q)
        PROVE  FALSE
    BY <1>1, <2>1 DEF ConfirmApply, ApplyReply, RestartProgram, NoApply, Nothing
  <2>2. ASSUME NEW q \in Programs,
               \/ ApplyCheck(q) \/ ApplyLock(q) \/ ApplyVerify(q) \/ ApplyWrite(q)
               \/ ApplyCompare(q) \/ ApplyEnd(q) \/ ApplyFail(q)
        PROVE  FALSE
    <3>1. PICK step \in LaterSteps \ {"renamed"} : Applied(q, step)
      BY <2>2 DEF LaterSteps, ApplyCheck, ApplyLock, ApplyVerify, ApplyWrite, ApplyCompare,
                  ApplyEnd, ApplyFail
    <3> QED
      BY <1>2, <3>1
  <2>3. ASSUME NEW q \in Programs, ApplyPublish(q)
        PROVE  Renames(p)
    <3>1. CASE Renames(q) /\ Applied(q, "renamed")
      BY <1>2, <3>1 DEF LaterSteps
    <3>2. CASE Applied(q, "refused")
      BY <1>2, <3>2 DEF LaterSteps
    <3> QED
      BY <2>3, <3>1, <3>2 DEF ApplyPublish
  <2>4. ASSUME NEW q \in Programs,
               \/ \E id \in Ids : EditProfile(q, id)
               \/ \E identity \in Identities : SubmitForm(q, identity)
               \/ \E d \in Definition : DeleteProfile(q, d) \/ PrepareProfile(q, d)
               \/ ConfirmDelete(q) \/ CancelDialog(q) \/ Retry(q) \/ ReviewFails(q)
        PROVE  FALSE
    BY <1>1, <2>4 DEF EditProfile, SubmitForm, DeleteProfile, PrepareProfile, ConfirmDelete,
                      CancelDialog, Retry, ReviewFails
  <2>5. ASSUME NEW q \in Programs,
               UpdateLock(q) \/ UpdateLoad(q) \/ UpdateWrite(q) \/ UpdateReply(q) \/ ProfilePlan(q)
        PROVE  FALSE
    BY <1>1, <2>5 DEF UpdateLock, UpdateLoad, UpdateWrite, UpdateReply, ProfilePlan
  <2>6. ASSUME GitPublish \/ \E identity \in Identities : GitLock(identity)
        PROVE  FALSE
    BY <1>1, <2>6 DEF GitLock, GitPublish
  <2> QED
    BY <2>1, <2>2, <2>3, <2>4, <2>5, <2>6 DEF ProfilesNext, Executors
<1> QED
  BY <1>3, ApplyHolds DEF Renames, Holding

\* The first lock that is taken from another is taken by the second removal.
LEMMA PublishersRob ==
  ASSUME ProfilesInvariant, ProgramsAreNot, ProfilesNext
  PROVE  OnlyPublishersRob
<1> SUFFICES ASSUME robbed', ~robbed
             PROVE  \E p \in Programs :
                      /\ apply[p].step = "renamed"
                      /\ apply'[p].step \in {"published", "unverified"}
  BY DEF OnlyPublishersRob
<1>1. PICK p \in Programs : ApplyEnd(p)
  <2>1. ASSUME NEW q \in Programs,
               \/ \E id \in Ids : EditProfile(q, id)
               \/ \E identity \in Identities : SubmitForm(q, identity)
               \/ \E d \in Definition : DeleteProfile(q, d) \/ PrepareProfile(q, d)
               \/ ConfirmDelete(q) \/ CancelDialog(q) \/ Retry(q) \/ ConfirmApply(q)
               \/ ReviewFails(q) \/ ApplyFail(q) \/ RestartProgram(q)
        PROVE  FALSE
    BY <2>1 DEF EditProfile, SubmitForm, DeleteProfile, PrepareProfile, ConfirmDelete, CancelDialog,
                Retry, ConfirmApply, ReviewFails, ApplyFail, RestartProgram, configVars
  <2>2. ASSUME NEW q \in Programs,
               \/ UpdateLock(q) \/ UpdateLoad(q) \/ UpdateWrite(q) \/ UpdateReply(q)
               \/ ProfilePlan(q) \/ ApplyCheck(q) \/ ApplyLock(q) \/ ApplyVerify(q)
               \/ ApplyWrite(q) \/ ApplyCompare(q) \/ ApplyReply(q)
        PROVE  FALSE
    BY <2>2 DEF UpdateLock, UpdateLoad, UpdateWrite, UpdateReply, ProfilePlan, ApplyCheck, ApplyLock,
                ApplyVerify, ApplyWrite, ApplyCompare, ApplyReply, configVars
  <2>3. ASSUME NEW q \in Programs, ApplyPublish(q)
        PROVE  FALSE
    <3>1. configLock.by = q
      BY <2>3, ApplyHolds DEF ApplyPublish, Holding
    <3> QED
      BY <2>3, <3>1 DEF ApplyPublish, Renames, Takes
  <2>4. ASSUME NEW identity \in Identities, GitLock(identity)
        PROVE  FALSE
    BY <2>4 DEF GitLock
  <2>5. ASSUME GitPublish
        PROVE  FALSE
    <3>1. configLock.by = Git
      BY <2>5 DEF GitPublish, ProfilesInvariant, VerifiedIsCurrent
    <3> QED
      BY <2>5, <3>1 DEF GitPublish, Renames, Takes
  <2> QED
    BY <2>1, <2>2, <2>3, <2>4, <2>5 DEF ProfilesNext, Executors
<1>2. apply[p].step = "renamed"
  <2>1. configLock.by # p
    BY <1>1 DEF ApplyEnd, Takes
  <2> QED
    BY <1>1, <2>1, ApplyHolds DEF ApplyEnd, Holding
<1>3. PICK step \in {"published", "unverified"} : Applied(p, step)
  BY <1>1, <1>2 DEF ApplyEnd
<1>4. apply \in [Programs -> Applications] /\ apply[p].step # Nothing
  BY <1>2 DEF ProfilesInvariant, ProfilesTypeOK, Nothing
<1>5. apply'[p].step = step
  BY <1>3, <1>4, ApplyIs DEF Applied, ProfilesInvariant
<1> QED
  BY <1>2, <1>3, <1>5

\* An assignment that is asked for is that of a write that ends, or a retry.
LEMMA AssignmentsArePublished ==
  ASSUME ProfilesInvariant, ProgramsAreNot, ProfilesNext
  PROVE  AssignsPublished
<1> SUFFICES ASSUME NEW p \in Programs, update[p] = NoUpdate, update'[p] # NoUpdate,
                    update'[p].mutation.kind = "assign"
             PROVE  \/ /\ apply[p].step = "published"
                       /\ update'[p].mutation.id = apply[p].definition.id
                    \/ ui[p].failed = update'[p].mutation
  BY DEF AssignsPublished
<1>1. update \in [Programs -> Updates] /\ update[p].step = Nothing
  BY DEF ProfilesInvariant, ProfilesTypeOK, NoUpdate
<1>2. ASSUME NEW q \in Programs, NEW u, NEW m, Saving(q, u, m)
      PROVE  q = p /\ update'[p].mutation = m
  <2>1. PICK j : j.mutation = m /\ update' \in {update, [update EXCEPT ![q] = j]}
    <3> DEFINE j == [step |-> "queued", mutation |-> m, next |-> Unread,
                     form |-> u.dialog.kind = "form"]
    <3>1. j.mutation = m /\ update' \in {update, [update EXCEPT ![q] = j]}
      BY <1>2 DEF Saving
    <3> QED
      BY <3>1
  <2> QED
    BY <1>1, <2>1
<1>3. ASSUME NEW q \in Programs, UpdateLock(q) \/ UpdateLoad(q) \/ UpdateWrite(q) \/ UpdateReply(q)
      PROVE  FALSE
  <2>1. update[q].step # Nothing /\ q # p
    BY <1>1, <1>3 DEF UpdateLock, UpdateLoad, UpdateWrite, UpdateReply, Nothing
  <2>2. update'[p] = update[p]
    BY <1>1, <1>3, <2>1 DEF UpdateLock, UpdateLoad, UpdateWrite, UpdateReply
  <2> QED
    BY <2>2
<1>4. ASSUME NEW q \in Programs, RestartProgram(q)
      PROVE  FALSE
  BY <1>1, <1>4 DEF RestartProgram
<1>5. ASSUME NEW q \in Programs,
             \/ \E identity \in Identities : SubmitForm(q, identity)
             \/ ConfirmDelete(q)
      PROVE  FALSE
  <2>1. PICK m, u : m.kind # "assign" /\ Saving(q, u, m)
    <3>1. ASSUME NEW identity \in Identities, SubmitForm(q, identity)
          PROVE  \E m, u : m.kind # "assign" /\ Saving(q, u, m)
      BY <3>1 DEF SubmitForm
    <3>2. ASSUME ConfirmDelete(q)
          PROVE  \E m, u : m.kind # "assign" /\ Saving(q, u, m)
      BY <3>2 DEF ConfirmDelete
    <3> QED
      BY <1>5, <3>1, <3>2
  <2> QED
    BY <1>2, <2>1
<1>6. ASSUME NEW q \in Programs, Retry(q)
      PROVE  ui[p].failed = update'[p].mutation
  <2>1. PICK u : Saving(q, u, ui[q].failed)
    BY <1>6 DEF Retry
  <2> QED
    BY <1>2, <2>1
<1>7. ASSUME NEW q \in Programs, ApplyReply(q)
      PROVE  apply[p].step = "published" /\ update'[p].mutation.id = apply[p].definition.id
  <2> DEFINE d == apply[q].definition
             m == [kind |-> "assign", id |-> d.id, identity |-> d.identity]
  <2>1. apply[q].step = "published"
    BY <1>7 DEF ApplyReply
  <2>2. PICK u : Saving(q, u, m)
    BY <1>7, <2>1 DEF ApplyReply
  <2>3. q = p /\ update'[p].mutation = m
    BY <1>2, <2>2
  <2> QED
    BY <2>1, <2>3
<1>8. \/ \E q \in Programs : \/ \E identity \in Identities : SubmitForm(q, identity)
                            \/ ConfirmDelete(q)
                            \/ Retry(q) \/ ApplyReply(q) \/ RestartProgram(q)
                            \/ UpdateLock(q) \/ UpdateLoad(q) \/ UpdateWrite(q) \/ UpdateReply(q)
  <2>1. ASSUME NEW q \in Programs,
               \/ \E id \in Ids : EditProfile(q, id)
               \/ \E d \in Definition : DeleteProfile(q, d) \/ PrepareProfile(q, d)
               \/ CancelDialog(q) \/ ConfirmApply(q) \/ ReviewFails(q) \/ ApplyFail(q)
        PROVE  update' = update
    BY <2>1 DEF EditProfile, DeleteProfile, PrepareProfile, CancelDialog, ConfirmApply,
                ReviewFails, ApplyFail
  <2>2. ASSUME NEW q \in Programs,
               \/ ProfilePlan(q) \/ ApplyCheck(q) \/ ApplyLock(q) \/ ApplyVerify(q)
               \/ ApplyWrite(q) \/ ApplyCompare(q) \/ ApplyPublish(q) \/ ApplyEnd(q)
        PROVE  update' = update
    BY <2>2 DEF ProfilePlan, ApplyCheck, ApplyLock, ApplyVerify, ApplyWrite, ApplyCompare,
                ApplyPublish, ApplyEnd
  <2>3. ASSUME GitPublish \/ \E identity \in Identities : GitLock(identity)
        PROVE  update' = update
    BY <2>3 DEF GitLock, GitPublish
  <2>4. update' # update
    OBVIOUS
  <2> QED
    BY <2>1, <2>2, <2>3, <2>4 DEF ProfilesNext, Executors
<1> QED
  BY <1>3, <1>4, <1>5, <1>6, <1>7, <1>8

\* The reply of a write that published asks for the assignment.
LEMMA PublishedIsRecorded ==
  ASSUME ProfilesInvariant, ProgramsAreNot, ProfilesNext
  PROVE  RecordsPublished
<1> SUFFICES ASSUME NEW p \in Programs, apply[p].step = "published", apply'[p] = NoApply,
                    outside' = outside
             PROVE  update'[p] # NoUpdate /\ update'[p].mutation.kind = "assign"
  BY DEF RecordsPublished
<1>1. /\ update \in [Programs -> Updates] /\ apply \in [Programs -> Applications]
      /\ outside \in Nat /\ apply[p] # NoApply
  BY DEF ProfilesInvariant, ProfilesTypeOK, NoApply, Nothing
<1>2. ASSUME NEW q \in Programs, NEW step \in LaterSteps, Applied(q, step)
      PROVE  FALSE
  BY <1>1, <1>2 DEF Applied, LaterSteps, NoApply, Nothing
<1>3. ASSUME NEW q \in Programs, ConfirmApply(q)
      PROVE  FALSE
  BY <1>1, <1>3 DEF ConfirmApply, NoApply, Nothing
<1>4. PICK q \in Programs : ApplyReply(q)
  <2>1. ASSUME NEW q \in Programs,
               \/ ApplyCheck(q) \/ ApplyLock(q) \/ ApplyVerify(q) \/ ApplyWrite(q)
               \/ ApplyCompare(q) \/ ApplyPublish(q) \/ ApplyEnd(q) \/ ApplyFail(q)
        PROVE  \E step \in LaterSteps : Applied(q, step)
    BY <2>1 DEF LaterSteps, ApplyCheck, ApplyLock, ApplyVerify, ApplyWrite, ApplyCompare,
                ApplyPublish, ApplyEnd, ApplyFail
  <2>2. apply' # apply
    BY <1>1
  <2>3. ~\E q \in Programs : RestartProgram(q)
    BY <1>1 DEF RestartProgram
  <2>4. ASSUME NEW q \in Programs,
               \/ \E id \in Ids : EditProfile(q, id)
               \/ \E identity \in Identities : SubmitForm(q, identity)
               \/ \E d \in Definition : DeleteProfile(q, d) \/ PrepareProfile(q, d)
               \/ ConfirmDelete(q) \/ CancelDialog(q) \/ Retry(q) \/ ReviewFails(q)
        PROVE  apply' = apply
    BY <2>4 DEF EditProfile, SubmitForm, DeleteProfile, PrepareProfile, ConfirmDelete,
                CancelDialog, Retry, ReviewFails
  <2>5. ASSUME NEW q \in Programs,
               UpdateLock(q) \/ UpdateLoad(q) \/ UpdateWrite(q) \/ UpdateReply(q) \/ ProfilePlan(q)
        PROVE  apply' = apply
    BY <2>5 DEF UpdateLock, UpdateLoad, UpdateWrite, UpdateReply, ProfilePlan
  <2>6. ASSUME GitPublish \/ \E identity \in Identities : GitLock(identity)
        PROVE  apply' = apply
    BY <2>6 DEF GitLock, GitPublish
  <2>7. \A q \in Programs :
          ~( \/ ApplyCheck(q) \/ ApplyLock(q) \/ ApplyVerify(q) \/ ApplyWrite(q)
             \/ ApplyCompare(q) \/ ApplyPublish(q) \/ ApplyEnd(q) \/ ApplyFail(q)
             \/ ConfirmApply(q) )
    BY <1>2, <1>3, <2>1
  <2> QED
    BY <2>2, <2>3, <2>4, <2>5, <2>6, <2>7 DEF ProfilesNext, Executors
<1>5. q = p
  BY <1>1, <1>4 DEF ApplyReply
<1>6. ~ui[p].saving
  BY <1>1 DEF ProfilesInvariant, RepliesAreAwaited, AppliesAlone, Nothing
<1> DEFINE d == apply[p].definition
           u == [ui[p] EXCEPT !.busy = Nothing]
           m == [kind |-> "assign", id |-> d.id, identity |-> d.identity]
           j == [step |-> "queued", mutation |-> m, next |-> Unread,
                 form |-> u.dialog.kind = "form"]
<1>7. ui[p] \in Windows /\ ~u.saving
  BY <1>6 DEF ProfilesInvariant, ProfilesTypeOK, Windows
<1>8. update' = [update EXCEPT ![p] = j]
  BY <1>4, <1>5, <1>7 DEF ApplyReply, Saving
<1>9. j # NoUpdate
  BY DEF NoUpdate, Nothing
<1> QED
  BY <1>1, <1>8, <1>9

(***************************************************************************)
(* No update of the profiles is lost (Store::update, execute_profile,      *)
(* finish_profile_write): for any programs, profiles, identities and       *)
(* bounds, what a program saves keeps the others' profiles; who has the    *)
(* lock publishes over what was reviewed, and what was read back is        *)
(* recorded; locks are released; and the first lock that is taken from     *)
(* another is taken by the second removal that ends a published write.     *)
(***************************************************************************)
THEOREM UpdatesAreKept ==
  ASSUME ProfilesAssumption, NothingAssumption, LeftAssumption
  PROVE  ProfilesSpec => NoUpdateIsLost
<1>1. ProgramsAreNot
  BY DEF ProgramsAreNot
<1>2. ProfilesInit => ProfilesInvariant
  BY <1>1, ProfilesInitInv
<1>3. ProfilesInvariant /\ [ProfilesNext]_profilesVars => ProfilesInvariant'
  BY <1>1, ProfilesStep
<1>4. ProfilesInvariant /\ [ProfilesNext]_profilesVars =>
        [ /\ ProfilesTypeOK /\ RepliesAreAwaited /\ AssignedIsDefined /\ LocksAreHeld
          /\ UpdateKeepsOthers /\ PublishesReviewed /\ OnlyPublishersRob
          /\ AssignsPublished /\ RecordsPublished ]_profilesVars
  <2> SUFFICES ASSUME ProfilesInvariant, ProfilesNext
               PROVE  /\ UpdateKeepsOthers /\ PublishesReviewed /\ OnlyPublishersRob
                      /\ AssignsPublished /\ RecordsPublished
    BY DEF ProfilesInvariant
  <2>1. UpdateKeepsOthers
    BY <1>1, OthersAreKept
  <2>2. PublishesReviewed
    BY <1>1, WritesAreReviewed
  <2>3. AssignsPublished
    BY <1>1, AssignmentsArePublished
  <2>4. RecordsPublished
    BY <1>1, PublishedIsRecorded
  <2>5. OnlyPublishersRob
    BY <1>1, PublishersRob
  <2> QED
    BY <2>1, <2>2, <2>3, <2>4, <2>5
<1> QED
  BY <1>2, <1>3, <1>4, PTL DEF ProfilesSpec, NoUpdateIsLost

=============================================================================
