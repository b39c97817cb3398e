------------------------ MODULE RepositoryTabsProofs ------------------------
(***************************************************************************)
(* Proofs about RepositoryTabs, for every set of repositories and of other  *)
(* paths to them, and every limit on the tabs.                              *)
(*                                                                          *)
(* The methods work on the view as a whole, so the lemmas say what each of  *)
(* them makes of a view, whoever calls it.  Agree is what holds between two *)
(* handlers; Tidy and Settled are the parts of it that a method finds in    *)
(* the middle of one, before the active tab has a reason to be blank.  What *)
(* the saved session forgets needs Covers: a tab that leaves without a save *)
(* leaves no tab active, and the next one that becomes active is saved or   *)
(* takes its place.                                                         *)
(***************************************************************************)
EXTENDS RepositoryTabs, SequenceTheorems, WellFoundedInduction, TLAPS

-----------------------------------------------------------------------------
(* Sequences of tabs *)

Smaller == {pair \in Nat \X Nat : pair[1] < pair[2]}

LEMMA MinimumExists ==
    ASSUME NEW S \in SUBSET Nat, S # {}
    PROVE  Min(S) \in S
<1>1. IsWellFoundedOn(Smaller, Nat)
  <2>1. OpToRel(<, Nat) = Smaller
    BY DEF OpToRel, Smaller
  <2> QED
    BY <2>1, NatLessThanWellFounded
<1>2. PICK x \in S : \A y \in S : ~(<<y, x>> \in Smaller)
  BY <1>1, WFMin
<1>3. ASSUME NEW y \in S
      PROVE  x <= y
  <2>1. x \in Nat /\ y \in Nat /\ <<y, x>> \in Nat \X Nat
    OBVIOUS
  <2>2. ~(y < x)
    BY <1>2, <2>1 DEF Smaller
  <2> QED
    BY <2>1, <2>2
<1> QED
  BY <1>3 DEF Min

LEMMA Finding ==
    ASSUME NEW tabs \in Seq(Tabs), NEW p
    PROVE  /\ Find(tabs, p) \in 0 .. Len(tabs)
           /\ Find(tabs, p) # 0 => tabs[Find(tabs, p)].path = p
           /\ Find(tabs, p) = 0 => \A i \in 1 .. Len(tabs) : tabs[i].path # p
<1> DEFINE I == {i \in 1 .. Len(tabs) : tabs[i].path = p}
<1>1. Find(tabs, p) = IF I # {} THEN Min(I) ELSE 0
  BY DEF Find, SelectInSeq
<1>2. I \in SUBSET Nat
  OBVIOUS
<1>3. I # {} => Min(I) \in I
  BY <1>2, MinimumExists
<1>4. Len(tabs) \in Nat
  OBVIOUS
<1> QED
  BY <1>1, <1>3, <1>4

LEMMA Removing ==
    ASSUME NEW tabs \in Seq(Tabs), NEW i \in 1 .. Len(tabs)
    PROVE  /\ RemoveAt(tabs, i) \in Seq(Tabs)
           /\ Len(RemoveAt(tabs, i)) = Len(tabs) - 1
           /\ \A j \in 1 .. Len(tabs) - 1 :
                 RemoveAt(tabs, i)[j] = IF j < i THEN tabs[j] ELSE tabs[j + 1]
<1> DEFINE before == SubSeq(tabs, 1, i - 1)
           after == SubSeq(tabs, i + 1, Len(tabs))
<1>1. Len(tabs) \in Nat /\ \A j \in 1 .. Len(tabs) : tabs[j] \in Tabs
  OBVIOUS
<1>2. /\ before \in Seq(Tabs) /\ Len(before) = i - 1
      /\ \A j \in 1 .. i - 1 : before[j] = tabs[j]
  BY <1>1, SubSeqProperties
<1>3. /\ after \in Seq(Tabs) /\ Len(after) = Len(tabs) - i
      /\ \A j \in 1 .. Len(tabs) - i : after[j] = tabs[j + i]
  BY <1>1, SubSeqProperties
<1> HIDE DEF before, after
<1>4. /\ before \o after \in Seq(Tabs)
      /\ Len(before \o after) = Len(tabs) - 1
      /\ \A j \in 1 .. Len(tabs) - 1 :
            (before \o after)[j] = IF j < i THEN before[j] ELSE after[j - (i - 1)]
  <2>1. /\ before \o after \in Seq(Tabs)
        /\ Len(before \o after) = Len(before) + Len(after)
    BY <1>2, <1>3, ConcatProperties
  <2>2. \A j \in 1 .. Len(before) + Len(after) :
           (before \o after)[j] = IF j <= Len(before) THEN before[j]
                                  ELSE after[j - Len(before)]
    BY <1>2, <1>3
  <2> QED
    BY <1>1, <1>2, <1>3, <2>1, <2>2
<1>5. \A j \in 1 .. Len(tabs) - 1 : ~(j < i) => j - (i - 1) \in 1 .. Len(tabs) - i
  BY <1>1
<1>6. RemoveAt(tabs, i) = before \o after
  BY DEF RemoveAt, before, after
<1>7. ASSUME NEW j \in 1 .. Len(tabs) - 1
      PROVE  (before \o after)[j] = IF j < i THEN tabs[j] ELSE tabs[j + 1]
  <2>1. CASE j < i
    BY <1>1, <1>2, <1>4, <2>1
  <2>2. CASE ~(j < i)
    <3>1. (before \o after)[j] = after[j - (i - 1)]
      BY <1>4, <2>2
    <3>2. after[j - (i - 1)] = tabs[j - (i - 1) + i]
      BY <1>3, <1>5, <2>2
    <3>3. j - (i - 1) + i = j + 1
      BY <1>1
    <3> QED
      BY <2>2, <3>1, <3>2, <3>3
  <2> QED
    BY <2>1, <2>2
<1> QED
  BY <1>4, <1>6, <1>7

-----------------------------------------------------------------------------
(* Views *)

Distinct(tabs) ==
    \A i, j \in 1 .. Len(tabs) : tabs[i].path = tabs[j].path => i = j

Labelled(tabs) ==
    \A i \in 1 .. Len(tabs) : tabs[i].warm \in {None, tabs[i].path}

\* The tabs by themselves are in order.
Tidy(s) ==
    /\ s \in Views
    /\ Len(s.tabs) <= MaxTabs /\ s.active \in 0 .. Len(s.tabs)
    /\ Distinct(s.tabs) /\ Labelled(s.tabs)

\* The fields of the live repository are those of the active tab.
Settled(s) ==
    /\ s.active # 0 => s.tabs[s.active].warm = None
    /\ s.active = 0 => s.path = None /\ s.read = NoRead
    /\ s.repository # None =>
         /\ s.active # 0
         /\ s.path = s.repository
         /\ s.tabs[s.active].path = s.repository

\* An active tab without its repository waits for it or shows an error.
Explained(s) ==
    s.active # 0 /\ s.repository = None =>
        s.read = OpenRead(s.tabs[s.active].path) \/ s.tabs[s.active].error

Agree(s) == Tidy(s) /\ Settled(s) /\ Explained(s)

LEMMA ViewTypes ==
    ASSUME NEW s \in Views
    PROVE  /\ s.tabs \in Seq(Tabs) /\ Len(s.tabs) \in Nat
           /\ \A i \in 1 .. Len(s.tabs) :
                /\ s.tabs[i] \in Tabs
                /\ s.tabs[i].path \in Paths /\ s.tabs[i].path # None
                /\ s.tabs[i].warm \in Repositories \cup {None}
           /\ s.active \in Nat /\ s.read \in Reads
           /\ s.repository \in Repositories \cup {None} /\ s.path \in Paths \cup {None}
           /\ s.saveDue \in BOOLEAN /\ s.restoring \in BOOLEAN
           /\ None \notin Repositories /\ Repositories \subseteq Paths
<1>1. /\ s.tabs \in Seq(Tabs) /\ s.active \in Nat /\ s.read \in Reads
      /\ s.repository \in Repositories \cup {None} /\ s.path \in Paths \cup {None}
      /\ s.saveDue \in BOOLEAN /\ s.restoring \in BOOLEAN
  BY DEF Views
<1>2. Len(s.tabs) \in Nat /\ \A i \in 1 .. Len(s.tabs) : s.tabs[i] \in Tabs
  BY <1>1
<1>3. None \notin Repositories /\ Repositories \subseteq Paths /\ None \notin Paths
  BY PathsAssumption DEF Paths
<1>4. \A tab \in Tabs : tab.path \in Paths /\ tab.warm \in Repositories \cup {None}
  BY DEF Tabs
<1> QED
  BY <1>1, <1>2, <1>3, <1>4

LEMMA Retaining ==
    ASSUME NEW s, Tidy(s), Settled(s)
    PROVE  LET r == Retained(s)
           IN  /\ Tidy(r) /\ r.repository = None
               /\ s.repository = None => r = s
               /\ s.repository # None => r.path = None
               /\ r.active = s.active /\ r.saveDue = s.saveDue /\ r.restoring = s.restoring
               /\ Len(r.tabs) = Len(s.tabs)
               /\ \A i \in 1 .. Len(s.tabs) : r.tabs[i].path = s.tabs[i].path
<1>1. CASE s.repository = None
  BY <1>1 DEF Retained
<1>2. CASE s.repository # None
  <2> DEFINE k == s.active
             new == [s.tabs[k] EXCEPT !.warm = s.repository, !.bookmarked = TRUE]
             tabs == [s.tabs EXCEPT ![k] = new]
  <2>1. s \in Views /\ k \in 1 .. Len(s.tabs) /\ s.tabs[k].path = s.repository
    BY <1>2, ViewTypes DEF Tidy, Settled
  <2>2. Find(s.tabs, s.repository) = k
    BY <2>1, ViewTypes, Finding DEF Tidy, Distinct
  <2>3. new \in Tabs /\ new.path = s.tabs[k].path /\ new.warm = s.repository
    <3>1. s.tabs[k] \in Tabs /\ s.repository \in Repositories
      BY <1>2, <2>1, ViewTypes
    <3> QED
      BY <3>1 DEF Tabs
  <2>4. /\ tabs \in Seq(Tabs) /\ Len(tabs) = Len(s.tabs)
        /\ \A i \in 1 .. Len(s.tabs) : tabs[i] = IF i = k THEN new ELSE s.tabs[i]
    BY <2>1, <2>3, ViewTypes, ExceptSeq
  <2>5. Distinct(tabs) /\ Labelled(tabs)
    BY <2>1, <2>3, <2>4 DEF Tidy, Distinct, Labelled
  <2>6. Retained(s) = [s EXCEPT !.tabs = tabs, !.read = NoRead, !.repository = None,
                                !.path = None]
    BY <1>2, <2>1, <2>2 DEF Retained, Views
  <2>7. NoRead \in Reads
    BY DEF Reads
  <2> HIDE DEF tabs, new
  <2>8. /\ Retained(s) \in Views /\ Retained(s).tabs = tabs
        /\ Retained(s).active = k /\ Retained(s).repository = None
        /\ Retained(s).path = None /\ Retained(s).saveDue = s.saveDue
        /\ Retained(s).restoring = s.restoring
    BY <2>1, <2>4, <2>6, <2>7 DEF Views
  <2> QED
    BY <1>2, <2>1, <2>3, <2>4, <2>5, <2>8 DEF Tidy
<1> QED
  BY <1>1, <1>2

LEMMA Restoring ==
    ASSUME NEW s, Tidy(s), NEW i \in 1 .. Len(s.tabs), s.tabs[i].warm # None
    PROVE  LET t == Restored(s, i)
           IN  /\ Agree(t) /\ t.active = i /\ t.repository # None
               /\ Len(t.tabs) = Len(s.tabs) /\ t.saveDue = s.saveDue
<1> DEFINE repo == s.tabs[i].warm
           new == [s.tabs[i] EXCEPT !.warm = None]
           tabs == [s.tabs EXCEPT ![i] = new]
<1>1. s \in Views /\ s.tabs[i] \in Tabs /\ repo \in Repositories /\ repo = s.tabs[i].path
  BY ViewTypes DEF Tidy, Labelled
<1>2. new \in Tabs /\ new.path = s.tabs[i].path /\ new.warm = None
  BY <1>1 DEF Tabs
<1>3. /\ tabs \in Seq(Tabs) /\ Len(tabs) = Len(s.tabs)
      /\ \A j \in 1 .. Len(s.tabs) : tabs[j] = IF j = i THEN new ELSE s.tabs[j]
  BY <1>1, <1>2, ViewTypes, ExceptSeq
<1>4. Distinct(tabs) /\ Labelled(tabs)
  BY <1>2, <1>3 DEF Tidy, Distinct, Labelled
<1>5. Restored(s, i) = [s EXCEPT !.active = i, !.repository = repo, !.path = repo,
                                 !.tabs = tabs]
  BY <1>1 DEF Restored, Views
<1>6. repo \in Paths /\ repo # None /\ i \in Nat /\ i # 0 /\ Len(s.tabs) \in Nat
  BY <1>1, ViewTypes
<1> HIDE DEF repo, tabs, new
<1>7. LET t == Restored(s, i)
      IN  /\ t \in Views /\ t.tabs = tabs /\ t.active = i
          /\ t.repository = repo /\ t.path = repo /\ t.saveDue = s.saveDue
  BY <1>1, <1>3, <1>5, <1>6 DEF Views
<1> QED
  BY <1>1, <1>2, <1>3, <1>4, <1>6, <1>7 DEF Tidy, Settled, Explained, Agree

LEMMA OpeningIs ==
    ASSUME NEW s \in Views, NEW p \in Paths
    PROVE  LET t == Opening(s, p)
           IN  /\ t \in Views /\ t.tabs = s.tabs /\ t.active = s.active /\ t.path = p
               /\ t.repository = IF s.path = p THEN s.repository ELSE None
               /\ t.read = OpenRead(p)
               /\ t.saveDue = s.saveDue /\ t.restoring = s.restoring
<1>1. OpenRead(p) \in Reads
  BY DEF Reads
<1> QED
  BY <1>1, ViewTypes DEF Opening, Views

LEMMA Reopening ==
    ASSUME NEW s, Tidy(s), NEW i \in 1 .. Len(s.tabs),
           s.repository = None, s.tabs[i].warm = None
    PROVE  LET t == Reopened(s, i)
           IN  Agree(t) /\ t.active = i /\ Len(t.tabs) = Len(s.tabs) /\ t.saveDue = s.saveDue
<1> DEFINE u == [s EXCEPT !.active = i, !.restoring = s.tabs[i].bookmarked]
           p == s.tabs[i].path
<1>1. /\ s \in Views /\ p \in Paths /\ p # None /\ s.tabs[i].bookmarked \in BOOLEAN
      /\ i \in Nat /\ i # 0 /\ Len(s.tabs) \in Nat
  BY ViewTypes DEF Tidy, Tabs
<1>2. /\ u \in Views /\ u.tabs = s.tabs /\ u.active = i
      /\ u.repository = None /\ u.saveDue = s.saveDue
  BY <1>1 DEF Views
<1>3. Reopened(s, i) = Opening(u, p)
  BY DEF Reopened
<1> HIDE DEF u
<1>4. LET t == Reopened(s, i)
      IN  /\ t \in Views /\ t.tabs = s.tabs /\ t.active = i
          /\ t.repository = None /\ t.read = OpenRead(p) /\ t.saveDue = s.saveDue
  BY <1>1, <1>2, <1>3, OpeningIs
<1> QED
  BY <1>1, <1>4 DEF Tidy, Settled, Explained, Agree

LEMMA Switching ==
    ASSUME NEW s, Tidy(s), Settled(s), NEW i \in 1 .. Len(s.tabs)
    PROVE  LET t == Switched(s, i)
           IN  /\ Agree(t) /\ t.active = i /\ Len(t.tabs) = Len(s.tabs)
               /\ t = s \/ t.saveDue
<1>1. CASE IsLive(s, i)
  <2>1. s.repository # None
    BY <1>1, ViewTypes DEF IsLive, Tidy
  <2> QED
    BY <1>1, <2>1 DEF Switched, IsLive, Agree, Explained
<1>2. CASE ~IsLive(s, i)
  <2> DEFINE r == Retained(s)
             t == IF r.tabs[i].warm # None THEN Restored(r, i) ELSE Reopened(r, i)
             done == [t EXCEPT !.saveDue = TRUE]
  <2>1. Tidy(r) /\ r.repository = None /\ Len(r.tabs) = Len(s.tabs)
    BY Retaining
  <2>2. Agree(t) /\ t.active = i /\ Len(t.tabs) = Len(s.tabs)
    <3>1. CASE r.tabs[i].warm # None
      BY <2>1, <3>1, Restoring
    <3>2. CASE r.tabs[i].warm = None
      BY <2>1, <3>2, Reopening
    <3> QED
      BY <3>1, <3>2
  <2>3. Switched(s, i) = done
    BY <1>2 DEF Switched
  <2> HIDE DEF t, r
  <2>4. /\ done \in Views /\ done.tabs = t.tabs /\ done.active = t.active
        /\ done.repository = t.repository /\ done.path = t.path /\ done.read = t.read
        /\ done.saveDue = TRUE
    BY <2>2 DEF Agree, Tidy, Views
  <2> HIDE DEF done
  <2>5. Agree(done)
    BY <2>2, <2>4 DEF Agree, Tidy, Settled, Explained
  <2> QED
    BY <2>2, <2>3, <2>4, <2>5
<1> QED
  BY <1>1, <1>2

\* The reads in flight and the marks of the tabs change, and no tab's repository.
LEMMA Marking ==
    ASSUME NEW s, Agree(s), NEW t \in Views,
           t.active = s.active, t.repository = s.repository, t.path = s.path,
           Len(t.tabs) = Len(s.tabs),
           \A i \in 1 .. Len(s.tabs) :
              /\ t.tabs[i].path = s.tabs[i].path /\ t.tabs[i].warm = s.tabs[i].warm
              /\ s.tabs[i].error => t.tabs[i].error,
           \/ t.read = s.read
           \/ s.active # 0 /\ (s.repository # None \/ t.tabs[s.active].error)
    PROVE  Agree(t)
<1>1. s \in Views /\ Len(s.tabs) \in Nat /\ (s.active # 0 => s.active \in 1 .. Len(s.tabs))
  BY ViewTypes DEF Agree, Tidy
<1>2. Tidy(t)
  BY <1>1 DEF Agree, Tidy, Distinct, Labelled
<1>3. Settled(t)
  BY <1>1 DEF Agree, Settled
<1>4. Explained(t)
  BY <1>1 DEF Agree, Explained
<1> QED
  BY <1>2, <1>3, <1>4 DEF Agree

LEMMA AppendingKeeps ==
    ASSUME NEW tabs \in Seq(Tabs), Distinct(tabs), Labelled(tabs),
           NEW p \in Paths, Find(tabs, p) = 0
    PROVE  LET more == Append(tabs, ColdTab(p, FALSE))
           IN  /\ more \in Seq(Tabs) /\ Len(more) = Len(tabs) + 1
               /\ Distinct(more) /\ Labelled(more)
               /\ \A i \in 1 .. Len(tabs) : more[i] = tabs[i]
               /\ more[Len(tabs) + 1] = ColdTab(p, FALSE)
<1> DEFINE new == ColdTab(p, FALSE)
           more == Append(tabs, new)
<1>1. new \in Tabs /\ new.path = p /\ new.warm = None
  BY DEF ColdTab, Tabs
<1>2. Len(tabs) \in Nat /\ \A i \in 1 .. Len(tabs) : tabs[i].path # p
  BY Finding
<1> HIDE DEF new
<1>3. /\ more \in Seq(Tabs) /\ Len(more) = Len(tabs) + 1
      /\ \A i \in 1 .. Len(tabs) : more[i] = tabs[i]
      /\ more[Len(tabs) + 1] = new
  BY <1>1, AppendProperties
<1> HIDE DEF more
<1>4. \A i \in 1 .. Len(more) : i \in 1 .. Len(tabs) \/ i = Len(tabs) + 1
  BY <1>2, <1>3
<1>5. Distinct(more)
  BY <1>1, <1>2, <1>3, <1>4 DEF Distinct
<1>6. Labelled(more)
  BY <1>1, <1>3, <1>4 DEF Labelled
<1> QED
  BY <1>3, <1>5, <1>6 DEF more, new

LEMMA RemovingKeeps ==
    ASSUME NEW tabs \in Seq(Tabs), Distinct(tabs), Labelled(tabs), NEW i \in 1 .. Len(tabs)
    PROVE  Distinct(RemoveAt(tabs, i)) /\ Labelled(RemoveAt(tabs, i))
<1> DEFINE fewer == RemoveAt(tabs, i)
           Old(j) == IF j < i THEN j ELSE j + 1
<1>1. /\ Len(tabs) \in Nat /\ Len(fewer) = Len(tabs) - 1
      /\ \A j \in 1 .. Len(fewer) : fewer[j] = tabs[Old(j)]
  <2>1. /\ Len(tabs) \in Nat /\ Len(fewer) = Len(tabs) - 1
        /\ \A j \in 1 .. Len(tabs) - 1 : fewer[j] = IF j < i THEN tabs[j] ELSE tabs[j + 1]
    <3>1. Len(tabs) \in Nat
      OBVIOUS
    <3>2. /\ Len(RemoveAt(tabs, i)) = Len(tabs) - 1
          /\ \A j \in 1 .. Len(tabs) - 1 :
                RemoveAt(tabs, i)[j] = IF j < i THEN tabs[j] ELSE tabs[j + 1]
      BY Removing
    <3> QED
      BY <3>1, <3>2
  <2>2. ASSUME NEW j \in 1 .. Len(tabs) - 1
        PROVE  fewer[j] = tabs[Old(j)]
    <3>1. CASE j < i
      BY <2>1, <3>1
    <3>2. CASE ~(j < i)
      BY <2>1, <3>2
    <3> QED
      BY <3>1, <3>2
  <2> QED
    BY <2>1, <2>2
<1>2. \A j \in 1 .. Len(fewer) : Old(j) \in 1 .. Len(tabs)
  BY <1>1
<1>3. \A j, k \in 1 .. Len(fewer) : Old(j) = Old(k) => j = k
  BY <1>1
<1> HIDE DEF fewer, Old
<1>4. Distinct(fewer)
  BY <1>1, <1>2, <1>3 DEF Distinct
<1>5. Labelled(fewer)
  BY <1>1, <1>2 DEF Labelled
<1> QED
  BY <1>4, <1>5 DEF fewer

LEMMA OpeningNewTab ==
    ASSUME NEW s, Tidy(s), Settled(s), NEW p \in Paths,
           Find(s.tabs, p) = 0, Len(s.tabs) < MaxTabs
    PROVE  LET t == NewTab(s, p)
           IN  /\ Agree(t) /\ t.active = Len(s.tabs) + 1
               /\ Len(t.tabs) = Len(s.tabs) + 1 /\ t.saveDue = s.saveDue
<1> DEFINE r == Retained(s)
           more == Append(r.tabs, ColdTab(p, FALSE))
           u == [r EXCEPT !.tabs = more, !.active = Len(r.tabs) + 1, !.restoring = FALSE]
<1>1. /\ Tidy(r) /\ r.repository = None /\ r.saveDue = s.saveDue /\ Len(r.tabs) = Len(s.tabs)
      /\ \A i \in 1 .. Len(s.tabs) : r.tabs[i].path = s.tabs[i].path
  BY Retaining
<1> HIDE DEF r
<1>2. r \in Views /\ r.tabs \in Seq(Tabs) /\ Len(r.tabs) \in Nat /\ s.tabs \in Seq(Tabs)
  BY <1>1, ViewTypes DEF Tidy
<1>3. Find(r.tabs, p) = 0
  BY <1>1, <1>2, Finding
<1>4. /\ more \in Seq(Tabs) /\ Len(more) = Len(s.tabs) + 1
      /\ Distinct(more) /\ Labelled(more)
      /\ more[Len(s.tabs) + 1] = ColdTab(p, FALSE)
  <2>1. Distinct(r.tabs) /\ Labelled(r.tabs)
    BY <1>1 DEF Tidy
  <2> HIDE DEF more
  <2>2. /\ more \in Seq(Tabs) /\ Len(more) = Len(r.tabs) + 1
        /\ Distinct(more) /\ Labelled(more)
        /\ more[Len(r.tabs) + 1] = ColdTab(p, FALSE)
    BY <1>2, <1>3, <2>1, AppendingKeeps DEF more
  <2> QED
    BY <1>1, <2>2
<1> HIDE DEF more
<1>5. /\ u \in Views /\ u.tabs = more /\ u.active = Len(s.tabs) + 1
      /\ u.repository = None /\ u.saveDue = s.saveDue
  <2>1. Len(r.tabs) + 1 \in Nat /\ Len(r.tabs) + 1 = Len(s.tabs) + 1 /\ FALSE \in BOOLEAN
    BY <1>1, <1>2
  <2>2. u \in Views
    BY <1>2, <1>4, <2>1 DEF Views
  <2>3. /\ u.tabs = more /\ u.active = Len(r.tabs) + 1
        /\ u.repository = r.repository /\ u.saveDue = r.saveDue
    BY <1>2 DEF Views
  <2> QED
    BY <1>1, <2>1, <2>2, <2>3
<1>6. NewTab(s, p) = Opening(u, p)
  BY DEF NewTab, r, more
<1> HIDE DEF u
<1>7. LET t == NewTab(s, p)
      IN  /\ t \in Views /\ t.tabs = more /\ t.active = Len(s.tabs) + 1
          /\ t.repository = None /\ t.path = p /\ t.read = OpenRead(p)
          /\ t.saveDue = s.saveDue
  <2> DEFINE o == Opening(u, p)
  <2>1. /\ o \in Views /\ o.tabs = u.tabs /\ o.active = u.active /\ o.path = p
        /\ o.repository = IF u.path = p THEN u.repository ELSE None
        /\ o.read = OpenRead(p) /\ o.saveDue = u.saveDue
    BY <1>5, OpeningIs
  <2> HIDE DEF o
  <2>2. NewTab(s, p) = o
    BY <1>6 DEF o
  <2> QED
    BY <1>5, <2>1, <2>2
<1>8. ColdTab(p, FALSE).path = p /\ ColdTab(p, FALSE).warm = None
  BY DEF ColdTab
<1>9. Len(s.tabs) + 1 <= MaxTabs
  BY <1>1, <1>2, MaxTabsAssumption
<1> QED
  <2> DEFINE t == NewTab(s, p)
  <2>1. /\ t \in Views /\ t.tabs = more /\ t.active = Len(s.tabs) + 1
        /\ t.repository = None /\ t.path = p /\ t.read = OpenRead(p)
        /\ t.saveDue = s.saveDue
    BY <1>7
  <2> HIDE DEF t
  <2>2. Len(s.tabs) \in Nat /\ Len(s.tabs) + 1 \in 0 .. Len(s.tabs) + 1 /\ Len(s.tabs) + 1 # 0
    BY <1>1, <1>2
  <2>3. Tidy(t)
    BY <1>4, <1>9, <2>1, <2>2 DEF Tidy
  <2>4. Settled(t) /\ Explained(t)
    BY <1>4, <1>8, <2>1, <2>2 DEF Settled, Explained
  <2>5. t.active = Len(s.tabs) + 1 /\ Len(t.tabs) = Len(s.tabs) + 1 /\ t.saveDue = s.saveDue
    BY <1>4, <2>1
  <2> QED
    BY <2>3, <2>4, <2>5 DEF Agree, t

LEMMA Installing ==
    ASSUME NEW s, Tidy(s), Settled(s), s.active # 0, NEW repo \in Repositories,
           Find(s.tabs, repo) \in {0, s.active}
    PROVE  LET t == Installed(s, repo)
           IN  /\ Agree(t) /\ t.active = s.active /\ t.repository = repo
               /\ Len(t.tabs) = Len(s.tabs) /\ (s.saveDue => t.saveDue)
<1> DEFINE k == s.active
           new == [s.tabs[k] EXCEPT !.path = repo, !.error = FALSE]
           tabs == [s.tabs EXCEPT ![k] = new]
<1>1. /\ s \in Views /\ k \in 1 .. Len(s.tabs) /\ s.tabs[k] \in Tabs /\ s.tabs \in Seq(Tabs)
      /\ repo \in Paths /\ repo # None /\ s.tabs[k].warm = None
      /\ s.saveDue \in BOOLEAN /\ s.restoring \in BOOLEAN /\ Len(s.tabs) \in Nat
  BY ViewTypes DEF Tidy, Settled
<1>2. new \in Tabs /\ new.path = repo /\ new.warm = None
  BY <1>1 DEF Tabs
<1>3. \A i \in 1 .. Len(s.tabs) : i # k => s.tabs[i].path # repo
  <2>1. CASE Find(s.tabs, repo) = 0
    BY <1>1, <2>1, Finding
  <2>2. CASE Find(s.tabs, repo) = k
    <3>1. k # 0 /\ s.tabs[k].path = repo
      BY <1>1, <2>2, Finding
    <3> QED
      BY <1>1, <3>1 DEF Tidy, Distinct
  <2> QED
    BY <2>1, <2>2
<1>4. /\ tabs \in Seq(Tabs) /\ Len(tabs) = Len(s.tabs)
      /\ \A j \in 1 .. Len(s.tabs) : tabs[j] = IF j = k THEN new ELSE s.tabs[j]
  BY <1>1, <1>2, ExceptSeq
<1> HIDE DEF new
<1>5. Distinct(tabs) /\ Labelled(tabs)
  BY <1>1, <1>2, <1>3, <1>4 DEF Tidy, Distinct, Labelled
<1>6. Installed(s, repo) = [s EXCEPT !.tabs = tabs, !.repository = repo, !.path = repo,
                                     !.saveDue = @ \/ ~s.restoring]
  BY <1>1 DEF Installed, Views, new
<1> HIDE DEF tabs
<1>7. LET t == Installed(s, repo)
      IN  /\ t \in Views /\ t.tabs = tabs /\ t.active = k
          /\ t.repository = repo /\ t.path = repo /\ (s.saveDue => t.saveDue)
  BY <1>1, <1>4, <1>6 DEF Views
<1> QED
  BY <1>1, <1>2, <1>4, <1>5, <1>7 DEF Agree, Tidy, Settled, Explained

\* The active tab leaves, and for now none is shown.
LEMMA Leaving ==
    ASSUME NEW s, Tidy(s), NEW i \in 1 .. Len(s.tabs), NEW t \in Views,
           t.tabs = RemoveAt(s.tabs, i), t.active = 0, t.read = NoRead,
           t.path = None, t.repository = None
    PROVE  Agree(t) /\ Len(t.tabs) = Len(s.tabs) - 1
<1>1. s \in Views /\ s.tabs \in Seq(Tabs) /\ Len(s.tabs) \in Nat
  BY ViewTypes DEF Tidy
<1>2. Len(RemoveAt(s.tabs, i)) = Len(s.tabs) - 1
  BY <1>1, Removing
<1>3. Distinct(t.tabs) /\ Labelled(t.tabs)
  BY <1>1, RemovingKeeps DEF Tidy
<1>4. Len(t.tabs) <= MaxTabs /\ t.active \in 0 .. Len(t.tabs)
  BY <1>1, <1>2, MaxTabsAssumption DEF Tidy
<1> QED
  BY <1>2, <1>3, <1>4 DEF Agree, Tidy, Settled, Explained

LEMMA Redirecting ==
    ASSUME NEW s, Tidy(s), Settled(s), s.active # 0, s.read = NoRead,
           NEW existing \in 1 .. Len(s.tabs), existing # s.active,
           NEW t \in Redirected(s, existing)
    PROVE  /\ Agree(t)
           /\ \/ t.saveDue
              \/ t.active = 0 /\ Len(t.tabs) = Len(s.tabs) - 1 /\ ~s.saveDue
<1> DEFINE k == s.active
           without == RemoveAt(s.tabs, k)
           shown == IF k < existing THEN existing - 1 ELSE existing
           left == [s EXCEPT !.tabs = without, !.active = 0, !.path = None, !.repository = None]
<1>1. /\ s \in Views /\ s.tabs \in Seq(Tabs) /\ Len(s.tabs) \in Nat /\ k \in 1 .. Len(s.tabs)
  BY ViewTypes DEF Tidy
<1>2. without \in Seq(Tabs)
  BY <1>1, Removing
<1> HIDE DEF without
<1>3. /\ left \in Views /\ left.tabs = without /\ left.active = 0 /\ left.read = NoRead
      /\ left.path = None /\ left.repository = None /\ left.saveDue = s.saveDue
  BY <1>1, <1>2 DEF Views
<1>4. t \in {left, Switched(left, shown)}
  BY DEF Redirected, without
<1> HIDE DEF left
<1>5. Agree(left) /\ Len(left.tabs) = Len(s.tabs) - 1
  BY <1>1, <1>3, Leaving DEF without
<1>6. shown \in 1 .. Len(left.tabs)
  BY <1>1, <1>5
<1> HIDE DEF shown
<1>7. Agree(Switched(left, shown)) /\ Switched(left, shown).saveDue
  <2>1. /\ Agree(Switched(left, shown)) /\ Switched(left, shown).active = shown
        /\ Switched(left, shown) = left \/ Switched(left, shown).saveDue
    BY <1>5, <1>6, Switching DEF Agree
  <2>2. shown # 0
    BY <1>1, <1>5, <1>6
  <2> QED
    BY <1>3, <2>1, <2>2
<1> QED
  BY <1>3, <1>4, <1>5, <1>7

LEMMA Accepting ==
    ASSUME NEW s, Agree(s), s.active # 0, NEW repo \in Repositories,
           NEW t \in Accepted(s, repo)
    PROVE  /\ Agree(t)
           /\ \/ t.saveDue
              \/ t.active = 0 /\ Len(t.tabs) = Len(s.tabs) - 1 /\ ~s.saveDue
              \/ t.active # 0 /\ Len(t.tabs) = Len(s.tabs) /\ ~s.saveDue
<1> DEFINE u == [s EXCEPT !.read = NoRead]
           existing == Find(u.tabs, repo)
<1>1. s \in Views /\ NoRead \in Reads
  BY DEF Agree, Tidy, Reads
<1>2. /\ u \in Views /\ u.tabs = s.tabs /\ u.active = s.active /\ u.read = NoRead
      /\ u.path = s.path /\ u.repository = s.repository /\ u.saveDue = s.saveDue
  BY <1>1 DEF Views
<1>3. t \in IF existing \notin {0, u.active} THEN Redirected(u, existing) ELSE {Installed(u, repo)}
  BY DEF Accepted
<1> HIDE DEF u
<1>4. Tidy(u) /\ Settled(u)
  BY <1>2 DEF Agree, Tidy, Settled
<1>5. existing \in 0 .. Len(u.tabs) /\ Len(u.tabs) \in Nat
  BY <1>2, ViewTypes, Finding
<1> HIDE DEF existing
<1>6. CASE existing \notin {0, u.active}
  BY <1>2, <1>3, <1>4, <1>5, <1>6, Redirecting DEF Agree, Settled
<1>7. CASE existing \in {0, u.active}
  <2>1. t = Installed(u, repo)
    BY <1>3, <1>7
  <2>2. Find(u.tabs, repo) \in {0, u.active}
    BY <1>7 DEF existing
  <2> QED
    BY <1>2, <1>4, <2>1, <2>2, Installing
<1> QED
  BY <1>6, <1>7

\* The session that was saved is covered by the view, unless a save is due.
Covers(s, n) ==
    s.saveDue \/ n <= Len(s.tabs) + (IF s.active = 0 THEN 1 ELSE 0)

LEMMA SwitchingCovers ==
    ASSUME NEW s, Agree(s), NEW i \in 1 .. Len(s.tabs), NEW n, Covers(s, n)
    PROVE  Agree(Switched(s, i)) /\ Covers(Switched(s, i), n)
<1>1. /\ Agree(Switched(s, i))
      /\ Switched(s, i) = s \/ Switched(s, i).saveDue
  BY Switching DEF Agree
<1> QED
  BY <1>1 DEF Covers

LEMMA AcceptingCovers ==
    ASSUME NEW s, Agree(s), s.active # 0, NEW repo \in Repositories,
           NEW t \in Accepted(s, repo), NEW n \in Nat, Covers(s, n)
    PROVE  Agree(t) /\ Covers(t, n)
<1>1. /\ Agree(t)
      /\ \/ t.saveDue
         \/ t.active = 0 /\ Len(t.tabs) = Len(s.tabs) - 1 /\ ~s.saveDue
         \/ t.active # 0 /\ Len(t.tabs) = Len(s.tabs) /\ ~s.saveDue
  BY Accepting
<1>2. Len(s.tabs) \in Nat
  BY ViewTypes DEF Agree, Tidy
<1>3. CASE t.saveDue
  BY <1>1, <1>3 DEF Covers
<1>4. CASE t.active = 0 /\ Len(t.tabs) = Len(s.tabs) - 1 /\ ~s.saveDue
  <2>1. n <= Len(s.tabs)
    BY <1>2, <1>4 DEF Covers
  <2>2. n <= Len(t.tabs) + 1
    BY <1>2, <1>4, <2>1
  <2> QED
    BY <1>1, <1>4, <2>2 DEF Covers
<1>5. CASE t.active # 0 /\ Len(t.tabs) = Len(s.tabs) /\ ~s.saveDue
  <2>1. n <= Len(s.tabs)
    BY <1>2, <1>5 DEF Covers
  <2> QED
    BY <1>1, <1>2, <1>5, <2>1 DEF Covers
<1> QED
  BY <1>1, <1>3, <1>4, <1>5

LEMMA Closing ==
    ASSUME NEW s, Agree(s), NEW i \in 1 .. Len(s.tabs), s.active # i
    PROVE  Agree(AfterClose(s, i)) /\ AfterClose(s, i).saveDue
<1> DEFINE fewer == RemoveAt(s.tabs, i)
           next == IF s.active > i THEN s.active - 1 ELSE s.active
           t == AfterClose(s, i)
<1>1. /\ s \in Views /\ s.tabs \in Seq(Tabs) /\ Len(s.tabs) \in Nat
      /\ s.active \in 0 .. Len(s.tabs) /\ Len(s.tabs) <= MaxTabs
  BY ViewTypes DEF Agree, Tidy
<1>2. /\ fewer \in Seq(Tabs) /\ Len(fewer) = Len(s.tabs) - 1
      /\ \A j \in 1 .. Len(s.tabs) - 1 :
            fewer[j] = IF j < i THEN s.tabs[j] ELSE s.tabs[j + 1]
  BY <1>1, Removing
<1>3. Distinct(fewer) /\ Labelled(fewer)
  BY <1>1, RemovingKeeps DEF Agree, Tidy
<1> HIDE DEF fewer
<1>4. /\ next \in 0 .. Len(fewer) /\ next \in Nat /\ (next = 0 <=> s.active = 0)
      /\ Len(fewer) <= MaxTabs
  BY <1>1, <1>2, MaxTabsAssumption
<1>5. next # 0 => fewer[next] = s.tabs[s.active]
  <2>1. CASE s.active > i
    <3>1. next = s.active - 1 /\ next \in 1 .. Len(s.tabs) - 1 /\ ~(next < i)
      BY <1>1, <2>1
    <3>2. fewer[next] = s.tabs[next + 1] /\ next + 1 = s.active
      BY <1>1, <1>2, <3>1
    <3> QED
      BY <3>2
  <2>2. CASE s.active < i
    <3>1. next = s.active /\ (next # 0 => next \in 1 .. Len(s.tabs) - 1) /\ next < i
      BY <1>1, <2>2
    <3> QED
      BY <1>2, <3>1
  <2> QED
    BY <1>1, <2>1, <2>2
<1>6. t = [s EXCEPT !.tabs = fewer, !.active = next, !.saveDue = TRUE]
  BY <1>1 DEF AfterClose, fewer, Views
<1> HIDE DEF next, t
<1>7. /\ t \in Views /\ t.tabs = fewer /\ t.active = next /\ t.saveDue
      /\ t.repository = s.repository /\ t.path = s.path /\ t.read = s.read
  BY <1>1, <1>2, <1>4, <1>6 DEF Views
<1>8. Tidy(t)
  BY <1>3, <1>4, <1>7 DEF Tidy
<1>9. Settled(t) /\ Explained(t)
  BY <1>4, <1>5, <1>7 DEF Agree, Settled, Explained
<1>10. Agree(t) /\ t.saveDue
  BY <1>7, <1>8, <1>9 DEF Agree
<1> QED
  BY <1>10 DEF t

LEMMA ClosingActive ==
    ASSUME NEW s, Agree(s), s.active # 0
    PROVE  Agree(AfterCloseActive(s, s.active)) /\ AfterCloseActive(s, s.active).saveDue
<1> DEFINE i == s.active
           fewer == RemoveAt(s.tabs, i)
           left == [s EXCEPT !.tabs = RemoveAt(@, i), !.active = 0,
                             !.read = NoRead, !.repository = None, !.path = None,
                             !.saveDue = TRUE]
           shown == IF i <= Len(left.tabs) THEN i ELSE Len(left.tabs)
           t == AfterCloseActive(s, i)
<1>1. /\ s \in Views /\ s.tabs \in Seq(Tabs) /\ Len(s.tabs) \in Nat
      /\ i \in 1 .. Len(s.tabs) /\ NoRead \in Reads
  BY ViewTypes DEF Agree, Tidy, Reads
<1>2. fewer \in Seq(Tabs)
  BY <1>1, Removing
<1>3. /\ left \in Views /\ left.tabs = fewer /\ left.active = 0 /\ left.read = NoRead
      /\ left.path = None /\ left.repository = None /\ left.saveDue
  BY <1>1, <1>2 DEF Views
<1>4. t = IF left.tabs = <<>> THEN left ELSE Switched(left, shown)
  BY DEF AfterCloseActive
<1> HIDE DEF left, t
<1>5. Agree(left) /\ Len(left.tabs) = Len(s.tabs) - 1
  BY <1>1, <1>3, Leaving DEF Agree
<1>6. left.tabs # <<>> => shown \in 1 .. Len(left.tabs)
  <2>1. left.tabs \in Seq(Tabs)
    BY <1>3, <1>2
  <2>2. left.tabs # <<>> => Len(left.tabs) # 0
    BY <2>1, EmptySeq
  <2> QED
    BY <1>1, <1>5, <2>2
<1> HIDE DEF shown
<1>7. CASE left.tabs = <<>>
  BY <1>3, <1>4, <1>5, <1>7 DEF t
<1>8. CASE left.tabs # <<>>
  <2>1. /\ Agree(Switched(left, shown))
        /\ Switched(left, shown) = left \/ Switched(left, shown).saveDue
    BY <1>5, <1>6, <1>8, Switching DEF Agree
  <2> QED
    BY <1>3, <1>4, <1>8, <2>1 DEF t
<1> QED
  BY <1>7, <1>8

LEMMA OpeningKeeps ==
    ASSUME NEW s, Agree(s), NEW p \in Paths, NEW n \in Nat, Covers(s, n),
           Find(s.tabs, p) = 0, Len(s.tabs) < MaxTabs
    PROVE  Agree(NewTab(s, p)) /\ Covers(NewTab(s, p), n)
<1>1. /\ Agree(NewTab(s, p)) /\ NewTab(s, p).active = Len(s.tabs) + 1
      /\ Len(NewTab(s, p).tabs) = Len(s.tabs) + 1 /\ NewTab(s, p).saveDue = s.saveDue
  BY OpeningNewTab DEF Agree
<1>2. Len(s.tabs) \in Nat
  BY ViewTypes DEF Agree, Tidy
<1>3. s.saveDue \/ n <= Len(s.tabs) + 1
  <2>1. CASE s.active = 0
    BY <2>1 DEF Covers
  <2>2. CASE s.active # 0
    <3>1. s.saveDue \/ n <= Len(s.tabs) + 0
      BY <2>2 DEF Covers
    <3> QED
      BY <1>2, <3>1
  <2> QED
    BY <2>1, <2>2
<1>4. s.saveDue \/ n <= Len(NewTab(s, p).tabs) + 0
  BY <1>1, <1>2, <1>3
<1>5. NewTab(s, p).active # 0
  BY <1>1, <1>2
<1> QED
  BY <1>1, <1>4, <1>5 DEF Covers

\* A cold tab at the end that nothing shows.
LEMMA Registering ==
    ASSUME NEW s, Agree(s), NEW p \in Paths, Find(s.tabs, p) = 0, Len(s.tabs) < MaxTabs
    PROVE  LET t == [s EXCEPT !.tabs = Append(@, ColdTab(p, FALSE)), !.saveDue = TRUE]
           IN  Agree(t) /\ t.saveDue
<1> DEFINE more == Append(s.tabs, ColdTab(p, FALSE))
           t == [s EXCEPT !.tabs = more, !.saveDue = TRUE]
<1>1. /\ s \in Views /\ s.tabs \in Seq(Tabs) /\ Len(s.tabs) \in Nat
      /\ s.active \in 0 .. Len(s.tabs) /\ Distinct(s.tabs) /\ Labelled(s.tabs)
  BY ViewTypes DEF Agree, Tidy
<1>2. /\ more \in Seq(Tabs) /\ Len(more) = Len(s.tabs) + 1
      /\ Distinct(more) /\ Labelled(more)
      /\ \A i \in 1 .. Len(s.tabs) : more[i] = s.tabs[i]
  BY <1>1, AppendingKeeps
<1> HIDE DEF more
<1>3. /\ t \in Views /\ t.tabs = more /\ t.active = s.active /\ t.saveDue
      /\ t.repository = s.repository /\ t.path = s.path /\ t.read = s.read
  BY <1>1, <1>2 DEF Views
<1>4. t = [s EXCEPT !.tabs = Append(@, ColdTab(p, FALSE)), !.saveDue = TRUE]
  BY DEF more
<1> HIDE DEF t
<1>5. Tidy(t)
  BY <1>1, <1>2, <1>3, MaxTabsAssumption DEF Tidy
<1>6. Settled(t) /\ Explained(t)
  <2>1. s.active # 0 => t.tabs[s.active] = s.tabs[s.active]
    BY <1>1, <1>2, <1>3
  <2> QED
    BY <1>3, <2>1 DEF Agree, Settled, Explained
<1>7. Agree(t) /\ t.saveDue
  BY <1>3, <1>5, <1>6 DEF Agree
<1> QED
  BY <1>4, <1>7

LEMMA Moving ==
    ASSUME NEW s, Agree(s), s.active # 0, NEW next \in 1 .. Len(s.tabs)
    PROVE  LET t == [s EXCEPT !.tabs[s.active] = s.tabs[next],
                              !.tabs[next] = s.tabs[s.active],
                              !.active = next,
                              !.saveDue = TRUE]
           IN  Agree(t) /\ t.saveDue
<1> DEFINE k == s.active
           once == [s.tabs EXCEPT ![k] = s.tabs[next]]
           tabs == [once EXCEPT ![next] = s.tabs[k]]
           From(j) == IF j = next THEN k ELSE IF j = k THEN next ELSE j
           t == [s EXCEPT !.tabs = tabs, !.active = next, !.saveDue = TRUE]
<1>1. /\ s \in Views /\ s.tabs \in Seq(Tabs) /\ Len(s.tabs) \in Nat /\ k \in 1 .. Len(s.tabs)
      /\ Distinct(s.tabs) /\ Labelled(s.tabs)
      /\ \A j \in 1 .. Len(s.tabs) : s.tabs[j] \in Tabs
  BY ViewTypes DEF Agree, Tidy
<1>2. /\ once \in Seq(Tabs) /\ Len(once) = Len(s.tabs)
      /\ \A j \in 1 .. Len(s.tabs) : once[j] = IF j = k THEN s.tabs[next] ELSE s.tabs[j]
  BY <1>1, ExceptSeq
<1> HIDE DEF once
<1>3. /\ tabs \in Seq(Tabs) /\ Len(tabs) = Len(s.tabs)
      /\ \A j \in 1 .. Len(s.tabs) : tabs[j] = IF j = next THEN s.tabs[k] ELSE once[j]
  BY <1>1, <1>2, ExceptSeq
<1> HIDE DEF tabs
<1>4. \A j \in 1 .. Len(s.tabs) : From(j) \in 1 .. Len(s.tabs) /\ tabs[j] = s.tabs[From(j)]
  BY <1>1, <1>2, <1>3
<1>5. \A i, j \in 1 .. Len(s.tabs) : From(i) = From(j) => i = j
  BY <1>1
<1>6. tabs[next] = s.tabs[k]
  BY <1>3
<1> HIDE DEF From
<1>7. Distinct(tabs) /\ Labelled(tabs)
  <2>1. ASSUME NEW i \in 1 .. Len(s.tabs), NEW j \in 1 .. Len(s.tabs),
               tabs[i].path = tabs[j].path
        PROVE  i = j
    <3>1. s.tabs[From(i)].path = s.tabs[From(j)].path
      BY <1>4, <2>1
    <3>2. From(i) = From(j)
      BY <1>1, <1>4, <3>1 DEF Distinct
    <3> QED
      BY <1>5, <3>2
  <2>2. \A i \in 1 .. Len(s.tabs) : tabs[i].warm \in {None, tabs[i].path}
    BY <1>1, <1>4 DEF Labelled
  <2> QED
    BY <1>3, <2>1, <2>2 DEF Distinct, Labelled
<1>8. /\ t \in Views /\ t.tabs = tabs /\ t.active = next /\ t.saveDue
      /\ t.repository = s.repository /\ t.path = s.path /\ t.read = s.read
  <2>1. next \in Nat
    BY <1>1
  <2> QED
    BY <1>1, <1>3, <2>1 DEF Views
<1>9. t = [s EXCEPT !.tabs[s.active] = s.tabs[next], !.tabs[next] = s.tabs[s.active],
                    !.active = next, !.saveDue = TRUE]
  BY <1>1 DEF tabs, once, Views
<1> HIDE DEF t
<1>10. Tidy(t)
  BY <1>1, <1>3, <1>7, <1>8 DEF Agree, Tidy
<1>11. Settled(t) /\ Explained(t)
  BY <1>1, <1>6, <1>8 DEF Agree, Settled, Explained
<1>12. Agree(t) /\ t.saveDue
  BY <1>8, <1>10, <1>11 DEF Agree
<1> QED
  BY <1>9, <1>12

\* The tabs of a group that were missing follow those that are there.
LEMMA Grouping ==
    ASSUME Agree(app), NEW group \in Groups, NEW new \in SeqOf(Paths, MaxGroup),
           IsMissing(new, group),
           Len(app.tabs \o [i \in DOMAIN new |-> ColdTab(new[i], FALSE)]) <= MaxTabs
    PROVE  LET s == [app EXCEPT !.tabs = @ \o [i \in DOMAIN new |-> ColdTab(new[i], FALSE)],
                                !.saveDue = TRUE]
           IN  Agree(s) /\ s.saveDue /\ Find(s.tabs, Head(group)) \in 1 .. Len(s.tabs)
<1> DEFINE cold == [i \in DOMAIN new |-> ColdTab(new[i], FALSE)]
           tabs == app.tabs \o cold
           old == Len(app.tabs)
           s == [app EXCEPT !.tabs = tabs, !.saveDue = TRUE]
<1>1. /\ app \in Views /\ app.tabs \in Seq(Tabs) /\ old \in Nat
      /\ app.active \in 0 .. old /\ Distinct(app.tabs) /\ Labelled(app.tabs)
  BY ViewTypes DEF Agree, Tidy
<1>2. PICK m \in 0 .. MaxGroup : new \in [1 .. m -> Paths]
  BY DEF SeqOf
<1>3. m \in Nat /\ DOMAIN new = 1 .. m
  BY <1>2, MaxTabsAssumption
<1>4. /\ cold \in Seq(Tabs) /\ Len(cold) = m
      /\ \A i \in 1 .. m : cold[i].path = new[i] /\ cold[i].warm = None /\ new[i] \in Paths
  <2>1. \A p \in Paths : /\ ColdTab(p, FALSE) \in Tabs
                         /\ ColdTab(p, FALSE).path = p /\ ColdTab(p, FALSE).warm = None
    BY DEF ColdTab, Tabs
  <2>2. \A i \in 1 .. m : new[i] \in Paths /\ cold[i] = ColdTab(new[i], FALSE)
    BY <1>2, <1>3
  <2>3. cold \in [1 .. m -> Tabs]
    BY <1>3, <2>1, <2>2
  <2> HIDE DEF cold
  <2>4. cold \in Seq(Tabs) /\ Len(cold) = m
    BY <1>3, <2>3
  <2>5. ASSUME NEW i \in 1 .. m
        PROVE  cold[i].path = new[i] /\ cold[i].warm = None /\ new[i] \in Paths
    <3>1. new[i] \in Paths /\ cold[i] = ColdTab(new[i], FALSE)
      BY <2>2
    <3> QED
      BY <2>1, <3>1
  <2> QED
    BY <2>4, <2>5
<1>5. \A i \in 1 .. m : Find(app.tabs, new[i]) = 0
  BY <1>3 DEF IsMissing, ToSet
<1>6. \A i \in 1 .. m, j \in 1 .. old : app.tabs[j].path # new[i]
  BY <1>1, <1>5, Finding
<1>7. \A i, j \in 1 .. m : new[i] = new[j] => i = j
  <2>1. \A k, l \in DOMAIN group : group[k] = group[l] => k = l
    BY DEF Groups, IsInjective
  <2>2. \A k, l \in DOMAIN group : k < l => k # l
    <3>1. PICK n \in 0 .. MaxGroup : group \in [1 .. n -> Paths]
      BY DEF Groups, SeqOf
    <3> QED
      BY <3>1, MaxTabsAssumption
  <2>3. \A i, j \in 1 .. m : i < j => new[i] # new[j]
    BY <1>3, <2>1, <2>2 DEF IsMissing
  <2> QED
    BY <1>3, <2>3
<1> HIDE DEF cold
<1>8. /\ tabs \in Seq(Tabs) /\ Len(tabs) = old + m
      /\ \A i \in 1 .. old + m : tabs[i] = IF i <= old THEN app.tabs[i] ELSE cold[i - old]
  BY <1>1, <1>4, ConcatProperties
<1> HIDE DEF tabs
<1>9. /\ \A i \in 1 .. old : i \in 1 .. old + m /\ tabs[i] = app.tabs[i]
      /\ \A i \in 1 .. m : old + i \in 1 .. old + m /\ tabs[old + i] = cold[i]
      /\ \A i \in 1 .. old + m : i \in 1 .. old \/ \E j \in 1 .. m : i = old + j
  <2>1. \A i \in 1 .. old : i \in 1 .. old + m /\ tabs[i] = app.tabs[i]
    BY <1>1, <1>3, <1>8
  <2>2. ASSUME NEW i \in 1 .. m
        PROVE  old + i \in 1 .. old + m /\ tabs[old + i] = cold[i]
    <3>1. old + i \in 1 .. old + m /\ ~(old + i <= old) /\ (old + i) - old = i
      BY <1>1, <1>3
    <3>2. tabs[old + i] = IF old + i <= old THEN app.tabs[old + i] ELSE cold[(old + i) - old]
      BY <1>8, <3>1
    <3> QED
      BY <3>1, <3>2
  <2>3. ASSUME NEW i \in 1 .. old + m, i \notin 1 .. old
        PROVE  \E j \in 1 .. m : i = old + j
    <3>1. i - old \in 1 .. m /\ i = old + (i - old)
      BY <1>1, <1>3, <2>3
    <3> QED
      BY <3>1
  <2> QED
    BY <2>1, <2>2, <2>3
<1>10. Distinct(tabs) /\ Labelled(tabs)
  <2>1. Distinct(tabs)
    <3> SUFFICES ASSUME NEW i \in 1 .. old + m, NEW j \in 1 .. old + m,
                        tabs[i].path = tabs[j].path
                 PROVE  i = j
      BY <1>8 DEF Distinct
    <3>1. CASE i \in 1 .. old /\ j \in 1 .. old
      BY <1>1, <1>9, <3>1 DEF Distinct
    <3>2. CASE i \in 1 .. old /\ j \notin 1 .. old
      <4>1. PICK l \in 1 .. m : j = old + l
        BY <1>9, <3>2
      <4>2. tabs[i] = app.tabs[i] /\ tabs[j].path = new[l]
        BY <1>4, <1>9, <3>2, <4>1
      <4> QED
        BY <1>6, <3>2, <4>2
    <3>3. CASE i \notin 1 .. old /\ j \in 1 .. old
      <4>1. PICK l \in 1 .. m : i = old + l
        BY <1>9, <3>3
      <4>2. tabs[j] = app.tabs[j] /\ tabs[i].path = new[l]
        BY <1>4, <1>9, <3>3, <4>1
      <4> QED
        BY <1>6, <3>3, <4>2
    <3>4. CASE i \notin 1 .. old /\ j \notin 1 .. old
      <4>1. PICK k \in 1 .. m, l \in 1 .. m : i = old + k /\ j = old + l
        BY <1>9, <3>4
      <4>2. tabs[i].path = new[k] /\ tabs[j].path = new[l]
        BY <1>4, <1>9, <4>1
      <4> QED
        BY <1>7, <4>1, <4>2
    <3> QED
      BY <3>1, <3>2, <3>3, <3>4
  <2>2. Labelled(tabs)
    <3> SUFFICES ASSUME NEW i \in 1 .. old + m
                 PROVE  tabs[i].warm \in {None, tabs[i].path}
      BY <1>8 DEF Labelled
    <3>1. CASE i \in 1 .. old
      BY <1>1, <1>9, <3>1 DEF Labelled
    <3>2. CASE i \notin 1 .. old
      <4>1. PICK k \in 1 .. m : i = old + k
        BY <1>9, <3>2
      <4>2. tabs[i].warm = None
        BY <1>4, <1>9, <4>1
      <4> QED
        BY <4>2
    <3> QED
      BY <3>1, <3>2
  <2> QED
    BY <2>1, <2>2
<1>11. /\ s \in Views /\ s.tabs = tabs /\ s.active = app.active /\ s.saveDue
       /\ s.repository = app.repository /\ s.path = app.path /\ s.read = app.read
  BY <1>1, <1>8 DEF Views
<1>12. s = [app EXCEPT !.tabs = @ \o [i \in DOMAIN new |-> ColdTab(new[i], FALSE)],
                       !.saveDue = TRUE]
  BY DEF tabs, cold
<1> HIDE DEF s
<1>13. Tidy(s)
  <2>1. Len(tabs) <= MaxTabs
    BY DEF tabs, cold
  <2>2. app.active \in 0 .. Len(tabs)
    BY <1>1, <1>3, <1>8
  <2> QED
    BY <1>10, <1>11, <2>1, <2>2 DEF Tidy
<1>14. Settled(s) /\ Explained(s)
  <2>1. app.active # 0 => s.tabs[app.active] = app.tabs[app.active]
    BY <1>1, <1>9, <1>11
  <2> QED
    BY <1>11, <2>1 DEF Agree, Settled, Explained
<1>15. Find(s.tabs, Head(group)) \in 1 .. Len(s.tabs)
  <2>1. Head(group) \in ToSet(group)
    <3>1. PICK n \in 0 .. MaxGroup : group \in [1 .. n -> Paths]
      BY DEF Groups, SeqOf
    <3>2. group \in Seq(Paths) /\ group # <<>>
      BY <3>1, MaxTabsAssumption DEF Groups
    <3>3. 1 \in DOMAIN group /\ Head(group) = group[1]
      BY <3>2
    <3> QED
      BY <3>3 DEF ToSet
  <2>2. \E i \in 1 .. old + m : tabs[i].path = Head(group)
    <3>1. CASE Find(app.tabs, Head(group)) # 0
      <4>1. /\ Find(app.tabs, Head(group)) \in 1 .. old
            /\ app.tabs[Find(app.tabs, Head(group))].path = Head(group)
        BY <1>1, <3>1, Finding
      <4> QED
        BY <1>9, <4>1
    <3>2. CASE Find(app.tabs, Head(group)) = 0
      <4>1. PICK i \in 1 .. m : new[i] = Head(group)
        BY <1>3, <2>1, <3>2 DEF IsMissing, ToSet
      <4>2. old + i \in 1 .. old + m /\ tabs[old + i].path = Head(group)
        BY <1>4, <1>9, <4>1
      <4> QED
        BY <4>2
    <3> QED
      BY <3>1, <3>2
  <2>3. /\ Find(tabs, Head(group)) \in 0 .. Len(tabs)
        /\ Find(tabs, Head(group)) = 0 => \A i \in 1 .. Len(tabs) : tabs[i].path # Head(group)
    BY <1>8, Finding
  <2> QED
    BY <1>8, <1>11, <2>2, <2>3
<1>16. Agree(s) /\ s.saveDue
  BY <1>11, <1>13, <1>14 DEF Agree
<1> QED
  BY <1>12, <1>15, <1>16

-----------------------------------------------------------------------------
(* The invariant *)

IInv ==
    /\ Agree(app) /\ Covers(app, Len(session))
    /\ session \in Seq(Paths) /\ Len(session) <= MaxTabs
    /\ busy \in {NoOperation} \cup Operations

LEMMA PathsAreListed ==
    ASSUME NEW tabs \in Seq(Tabs)
    PROVE  PathsOf(tabs) \in Seq(Paths) /\ Len(PathsOf(tabs)) = Len(tabs)
<1>1. /\ Len(tabs) \in Nat /\ DOMAIN tabs = 1 .. Len(tabs)
      /\ \A i \in 1 .. Len(tabs) : tabs[i].path \in Paths
  <2>1. \A tab \in Tabs : tab.path \in Paths
    BY DEF Tabs
  <2>2. DOMAIN tabs = 1 .. Len(tabs) /\ \A i \in 1 .. Len(tabs) : tabs[i] \in Tabs
    OBVIOUS
  <2> QED
    BY <2>1, <2>2
<1>2. PathsOf(tabs) \in [1 .. Len(tabs) -> Paths]
  BY <1>1 DEF PathsOf
<1> HIDE DEF PathsOf
<1> QED
  BY <1>1, <1>2

LEMMA PathsDiffer ==
    ASSUME NEW tabs \in Seq(Tabs)
    PROVE  IsInjective(PathsOf(tabs)) <=> Distinct(tabs)
<1>1. DOMAIN tabs = 1 .. Len(tabs)
  OBVIOUS
<1>2. DOMAIN PathsOf(tabs) = 1 .. Len(tabs)
      /\ \A i \in 1 .. Len(tabs) : PathsOf(tabs)[i] = tabs[i].path
  BY <1>1 DEF PathsOf
<1> QED
  BY <1>2 DEF IsInjective, Distinct

LEMMA InitEstablishes == Init => IInv
<1> SUFFICES ASSUME Init
             PROVE  IInv
  OBVIOUS
<1>0. PICK tabs \in Sessions :
         /\ \E active \in DOMAIN tabs \cup {0} :
              /\ tabs # <<>> => active # 0
              /\ app = Launched(tabs, active)
         /\ session = PathsOf(tabs)
  BY DEF Init
<1>1. PICK active \in DOMAIN tabs \cup {0} :
         /\ tabs # <<>> => active # 0
         /\ app = Launched(tabs, active)
         /\ session = PathsOf(tabs)
  BY <1>0
<1>2. PICK m \in 0 .. MaxTabs : tabs \in [1 .. m -> {ColdTab(p, TRUE) : p \in Paths}]
  BY <1>1 DEF Sessions, SeqOf
<1>3. m \in Nat /\ m <= MaxTabs
  BY MaxTabsAssumption
<1>4. \A p \in Paths : ColdTab(p, TRUE) \in Tabs /\ ColdTab(p, TRUE).warm = None
  BY DEF ColdTab, Tabs
<1>5. \A i \in 1 .. m : tabs[i] \in Tabs /\ tabs[i].warm = None
  BY <1>2, <1>4
<1>6. tabs \in Seq(Tabs) /\ Len(tabs) = m
  <2>1. tabs \in [1 .. m -> Tabs]
    BY <1>2, <1>5
  <2> QED
    BY <1>3, <2>1
<1>7. Distinct(tabs) /\ Labelled(tabs)
  BY <1>5, <1>6, PathsDiffer DEF Sessions, Labelled
<1>8. session \in Seq(Paths) /\ Len(session) = m
  BY <1>1, <1>6, PathsAreListed
<1> DEFINE s == [tabs |-> tabs, active |-> 0, repository |-> None, path |-> None,
                 read |-> NoRead, restoring |-> FALSE, saveDue |-> FALSE]
           u == [s EXCEPT !.active = active]
<1>9. active \in Nat /\ active \in 0 .. m
  BY <1>1, <1>3, <1>6
<1>10. /\ u \in Views /\ u.tabs = tabs /\ u.active = active /\ u.repository = None
       /\ u.path = None /\ u.read = NoRead
  BY <1>6, <1>9 DEF Views, Reads
<1>11. app = IF tabs = <<>> THEN s ELSE Switched(u, active)
  BY <1>1 DEF Launched
<1>12. CASE tabs = <<>>
  <2>1. m = 0 /\ active = 0
    BY <1>6, <1>9, <1>12
  <2>2. /\ s \in Views /\ s.tabs = tabs /\ s.active = 0 /\ s.repository = None
        /\ s.path = None /\ s.read = NoRead
    BY <1>6 DEF Views, Reads
  <2> HIDE DEF u, s
  <2>3. Agree(s)
    BY <1>3, <1>6, <1>7, <2>1, <2>2 DEF Agree, Tidy, Settled, Explained
  <2>4. Covers(s, Len(session))
    BY <1>6, <1>8, <2>1, <2>2 DEF Covers
  <2> QED
    BY <1>1, <1>3, <1>8, <1>11, <1>12, <2>3, <2>4 DEF IInv, Init
<1>13. CASE tabs # <<>>
  <2> HIDE DEF u, s
  <2>1. active \in 1 .. m
    BY <1>1, <1>9, <1>13
  <2>2. Tidy(u) /\ Settled(u)
    BY <1>3, <1>5, <1>6, <1>7, <1>9, <1>10, <2>1 DEF Tidy, Settled
  <2>3. /\ Agree(app) /\ app.active = active /\ Len(app.tabs) = m
        /\ app = u \/ app.saveDue
    BY <1>6, <1>10, <1>11, <1>13, <2>1, <2>2, Switching
  <2>4. Covers(app, Len(session))
    BY <1>3, <1>8, <2>1, <2>3 DEF Covers
  <2> QED
    BY <1>3, <1>8, <2>3, <2>4 DEF IInv, Init
<1> QED
  BY <1>12, <1>13

\* A step that leaves the session and ends or keeps the operation.
LEMMA ViewChanges ==
    ASSUME IInv, Agree(app'), Covers(app', Len(session)), UNCHANGED session,
           busy' = busy \/ busy' = NoOperation
    PROVE  IInv'
BY DEF IInv

LEMMA OpensKeeps ==
    ASSUME IInv, NEW p \in Paths, Opens(p)
    PROVE  Agree(app') /\ Covers(app', Len(session))
<1>1. /\ app.tabs \in Seq(Tabs) /\ Len(app.tabs) \in Nat /\ Len(session) \in Nat
      /\ Agree(app) /\ Covers(app, Len(session))
  BY ViewTypes DEF IInv, Agree, Tidy
<1>2. CASE Find(app.tabs, p) # 0
  <2>1. Find(app.tabs, p) \in 1 .. Len(app.tabs)
    BY <1>1, <1>2, Finding
  <2> QED
    BY <1>1, <1>2, <2>1, SwitchingCovers DEF Opens
<1>3. CASE Find(app.tabs, p) = 0
  BY <1>1, <1>3, OpeningKeeps DEF Opens
<1> QED
  BY <1>2, <1>3

LEMMA ReplyKeeps ==
    ASSUME IInv, OpenReply
    PROVE  IInv'
<1>1. /\ app \in Views /\ Agree(app) /\ Covers(app, Len(session)) /\ Len(session) \in Nat
      /\ Settled(app) /\ UNCHANGED <<session, busy>>
  BY DEF IInv, Agree, Tidy, OpenReply
<1>2. app.active # 0
  BY <1>1 DEF OpenReply, Settled, NoRead
<1> DEFINE After(s) == IF s.read # NoRead \/ s.repository = None
                      THEN {s}
                      ELSE {[s EXCEPT !.read = ListRead(s.repository)],
                            [s EXCEPT !.read = ListRead(s.repository), !.restoring = FALSE],
                            [s EXCEPT !.restoring = FALSE]}
<1>3. PICK repo \in Repositories : \E s \in Accepted(app, repo) : app' \in After(s)
  BY DEF OpenReply
<1>4. PICK s \in Accepted(app, repo) : app' \in After(s)
  BY <1>3
<1>5. Agree(s) /\ Covers(s, Len(session)) /\ s \in Views
  BY <1>1, <1>2, AcceptingCovers DEF Agree, Tidy
<1>6. CASE app' = s
  BY <1>1, <1>5, <1>6, ViewChanges
<1>7. CASE app' # s
  <2>1. s.repository # None /\ s.active # 0 /\ s.repository \in Paths
    BY <1>4, <1>5, <1>7, ViewTypes DEF Agree, Settled
  <2>2. ListRead(s.repository) \in Reads
    BY <2>1 DEF Reads
  <2>3. /\ app' \in Views /\ app'.tabs = s.tabs /\ app'.active = s.active
        /\ app'.repository = s.repository /\ app'.path = s.path /\ app'.saveDue = s.saveDue
    BY <1>4, <1>5, <1>7, <2>1, <2>2 DEF Views
  <2>4. Agree(app')
    BY <1>5, <2>1, <2>3, Marking
  <2>5. Covers(app', Len(session))
    BY <1>5, <2>3 DEF Covers
  <2> QED
    BY <1>1, <2>4, <2>5, ViewChanges
<1> QED
  BY <1>6, <1>7

LEMMA SaveKeeps ==
    ASSUME IInv, SaveSession
    PROVE  IInv'
<1>1. /\ app \in Views /\ Agree(app) /\ app.tabs \in Seq(Tabs) /\ Len(app.tabs) \in Nat
      /\ Len(app.tabs) <= MaxTabs /\ app.active \in 0 .. Len(app.tabs)
  BY ViewTypes DEF IInv, Agree, Tidy
<1>2. session' \in Seq(Paths) /\ Len(session') = Len(app.tabs)
  BY <1>1, PathsAreListed DEF SaveSession
<1>3. CASE app.active # 0 /\ app.repository # None
  <2> DEFINE k == app.active
             new == [app.tabs[k] EXCEPT !.bookmarked = TRUE]
             tabs == [app.tabs EXCEPT ![k] = new]
             t == [app EXCEPT !.saveDue = FALSE, !.tabs = tabs]
  <2>1. k \in 1 .. Len(app.tabs) /\ app.tabs[k] \in Tabs
    BY <1>1, <1>3
  <2>2. /\ new \in Tabs /\ new.path = app.tabs[k].path /\ new.warm = app.tabs[k].warm
        /\ new.error = app.tabs[k].error
    BY <2>1 DEF Tabs
  <2> HIDE DEF new
  <2>3. /\ tabs \in Seq(Tabs) /\ Len(tabs) = Len(app.tabs)
        /\ \A i \in 1 .. Len(app.tabs) : tabs[i] = IF i = k THEN new ELSE app.tabs[i]
    BY <1>1, <2>1, <2>2, ExceptSeq
  <2>4. app' = t
    BY <1>1, <1>3 DEF SaveSession, Views, new
  <2> HIDE DEF tabs, t
  <2>5. /\ t \in Views /\ t.tabs = tabs /\ t.active = k /\ t.repository = app.repository
        /\ t.path = app.path /\ t.read = app.read
    BY <1>1, <2>3 DEF t, Views
  <2>6. \A i \in 1 .. Len(app.tabs) :
           /\ t.tabs[i].path = app.tabs[i].path /\ t.tabs[i].warm = app.tabs[i].warm
           /\ app.tabs[i].error => t.tabs[i].error
    BY <2>2, <2>3, <2>5
  <2>7. Agree(t)
    BY <1>1, <2>3, <2>5, <2>6, Marking
  <2>8. Covers(t, Len(session'))
    BY <1>1, <1>2, <1>3, <2>3, <2>5 DEF Covers
  <2> QED
    BY <1>1, <1>2, <2>4, <2>7, <2>8 DEF IInv, SaveSession
<1>4. CASE ~(app.active # 0 /\ app.repository # None)
  <2>1. app' = [app EXCEPT !.saveDue = FALSE]
    BY <1>4 DEF SaveSession
  <2>2. /\ app' \in Views /\ app'.tabs = app.tabs /\ app'.active = app.active
        /\ app'.repository = app.repository /\ app'.path = app.path /\ app'.read = app.read
    BY <1>1, <2>1 DEF Views
  <2>3. Agree(app')
    BY <1>1, <2>2, Marking
  <2>4. Covers(app', Len(session'))
    <3>1. Len(app.tabs) <= Len(app.tabs) + 0 /\ Len(app.tabs) <= Len(app.tabs) + 1
      BY <1>1
    <3> QED
      BY <1>2, <2>2, <3>1 DEF Covers
  <2> QED
    BY <1>1, <1>2, <2>3, <2>4 DEF IInv, SaveSession
<1> QED
  BY <1>3, <1>4

LEMMA FailureKeeps ==
    ASSUME IInv, ReadFails
    PROVE  IInv'
<1>1. /\ app \in Views /\ Agree(app) /\ app.tabs \in Seq(Tabs) /\ Len(app.tabs) \in Nat
      /\ app.active \in 0 .. Len(app.tabs) /\ NoRead \in Reads
      /\ Covers(app, Len(session)) /\ UNCHANGED <<session, busy>>
  BY ViewTypes DEF IInv, Agree, Tidy, Reads, ReadFails
<1>2. app.active # 0
  BY <1>1 DEF ReadFails, Agree, Settled
<1> DEFINE k == app.active
           new == [app.tabs[k] EXCEPT !.error = TRUE]
           tabs == [app.tabs EXCEPT ![k] = new]
           t == [app EXCEPT !.read = NoRead, !.tabs = tabs]
<1>3. k \in 1 .. Len(app.tabs) /\ app.tabs[k] \in Tabs
  BY <1>1, <1>2
<1>4. /\ new \in Tabs /\ new.path = app.tabs[k].path /\ new.warm = app.tabs[k].warm
      /\ new.error
  BY <1>3 DEF Tabs
<1> HIDE DEF new
<1>5. /\ tabs \in Seq(Tabs) /\ Len(tabs) = Len(app.tabs)
      /\ \A i \in 1 .. Len(app.tabs) : tabs[i] = IF i = k THEN new ELSE app.tabs[i]
  BY <1>1, <1>3, <1>4, ExceptSeq
<1>6. app' = t
  BY <1>1, <1>2 DEF ReadFails, Failed, Views, new
<1> HIDE DEF tabs, t
<1>7. /\ t \in Views /\ t.tabs = tabs /\ t.active = k /\ t.repository = app.repository
      /\ t.path = app.path /\ t.saveDue = app.saveDue
  BY <1>1, <1>5 DEF t, Views
<1>8. /\ t.tabs[k].error
      /\ \A i \in 1 .. Len(app.tabs) :
           /\ t.tabs[i].path = app.tabs[i].path /\ t.tabs[i].warm = app.tabs[i].warm
           /\ app.tabs[i].error => t.tabs[i].error
  BY <1>3, <1>4, <1>5, <1>7
<1>9. Agree(t)
  BY <1>1, <1>2, <1>5, <1>7, <1>8, Marking
<1>10. Covers(t, Len(session))
  BY <1>1, <1>5, <1>7 DEF Covers
<1> QED
  BY <1>1, <1>6, <1>9, <1>10, ViewChanges

\* The reads the view starts and ends by itself.
LEMMA ReadingKeeps ==
    ASSUME IInv, Select \/ ListReply
    PROVE  IInv'
<1>1. /\ app \in Views /\ Agree(app) /\ Settled(app) /\ Explained(app)
      /\ app.saveDue \in BOOLEAN /\ app.restoring \in BOOLEAN /\ NoRead \in Reads
      /\ Covers(app, Len(session)) /\ UNCHANGED <<session, busy>>
  BY ViewTypes DEF IInv, Agree, Tidy, Reads, Select, ListReply
<1>2. CASE Select
  <2>1. app.repository # None /\ app.active # 0 /\ app.repository \in Paths
    BY <1>1, <1>2, ViewTypes DEF Select, Settled
  <2>2. ListRead(app.repository) \in Reads
    BY <2>1 DEF Reads
  <2>3. /\ app' \in Views /\ app'.tabs = app.tabs /\ app'.active = app.active
        /\ app'.repository = app.repository /\ app'.path = app.path
        /\ app'.saveDue = app.saveDue
    BY <1>1, <1>2, <2>2 DEF Select, Views
  <2>4. Agree(app') /\ Covers(app', Len(session))
    BY <1>1, <2>1, <2>3, Marking DEF Covers
  <2> QED
    BY <1>1, <2>4, ViewChanges
<1>3. CASE ListReply
  <2>1. app.read # NoRead /\ \A p : app.read # OpenRead(p)
    BY <1>3 DEF ListReply, NoRead, OpenRead
  <2>2. app.active # 0 /\ (app.repository # None \/ app.tabs[app.active].error)
    BY <1>1, <2>1 DEF Settled, Explained
  <2>3. /\ app' \in Views /\ app'.tabs = app.tabs /\ app'.active = app.active
        /\ app'.repository = app.repository /\ app'.path = app.path
        /\ app'.saveDue = (app.saveDue \/ app.restoring)
    BY <1>1, <1>3 DEF ListReply, Views
  <2>4. Agree(app') /\ Covers(app', Len(session))
    BY <1>1, <2>2, <2>3, Marking DEF Covers
  <2> QED
    BY <1>1, <2>4, ViewChanges
<1> QED
  BY <1>2, <1>3

LEMMA RefreshKeeps ==
    ASSUME IInv, Refresh
    PROVE  IInv'
<1> DEFINE i == Find(app.tabs, app.path)
<1>1. /\ app \in Views /\ Agree(app) /\ app.tabs \in Seq(Tabs) /\ Len(app.tabs) \in Nat
      /\ Covers(app, Len(session)) /\ UNCHANGED <<session, busy>>
      /\ app.path \in Paths
  BY ViewTypes DEF IInv, Agree, Tidy, Refresh
<1>2. i \in 1 .. Len(app.tabs) /\ app.tabs[i].path = app.path
  BY <1>1, Finding DEF Refresh
<1>3. app' = IF IsLive(app, i) THEN Opening(app, app.path) ELSE Switched(app, i)
  BY DEF Refresh
<1> HIDE DEF i
<1>4. CASE IsLive(app, i)
  <2>1. app.active # 0 /\ app.repository # None
    BY <1>1, <1>2, <1>4, ViewTypes DEF IsLive
  <2>2. /\ app' \in Views /\ app'.tabs = app.tabs /\ app'.active = app.active
        /\ app'.repository = app.repository /\ app'.path = app.path
        /\ app'.saveDue = app.saveDue
    BY <1>1, <1>3, <1>4, OpeningIs
  <2>3. Agree(app') /\ Covers(app', Len(session))
    BY <1>1, <2>1, <2>2, Marking DEF Covers
  <2> QED
    BY <1>1, <2>3, ViewChanges
<1>5. CASE ~IsLive(app, i)
  BY <1>1, <1>2, <1>3, <1>5, SwitchingCovers, ViewChanges
<1> QED
  BY <1>4, <1>5

LEMMA TabsKeep ==
    ASSUME IInv, NEW i \in DOMAIN app.tabs, SwitchTab(i) \/ CloseTab(i) \/ MoveTab(i)
    PROVE  IInv'
<1>1. /\ Agree(app) /\ Covers(app, Len(session)) /\ UNCHANGED <<session, busy>>
      /\ i \in 1 .. Len(app.tabs)
  BY ViewTypes DEF IInv, Agree, Tidy, SwitchTab, CloseTab, MoveTab
<1>2. Agree(app') /\ Covers(app', Len(session))
  <2>1. CASE SwitchTab(i)
    BY <1>1, <2>1, SwitchingCovers DEF SwitchTab
  <2>2. CASE CloseTab(i) /\ app.active = i
    <3>1. app.active # 0
      BY <1>1, <2>2
    <3> QED
      BY <1>1, <2>2, <3>1, ClosingActive DEF CloseTab, Covers
  <2>3. CASE CloseTab(i) /\ app.active # i
    BY <1>1, <2>3, Closing DEF CloseTab, Covers
  <2>4. CASE MoveTab(i)
    <3>1. Agree(app') /\ app'.saveDue
      BY <1>1, <2>4, Moving DEF MoveTab
    <3> QED
      BY <3>1 DEF Covers
  <2> QED
    BY <2>1, <2>2, <2>3, <2>4
<1> QED
  BY <1>1, <1>2, ViewChanges

LEMMA GroupKeeps ==
    ASSUME IInv, NEW group \in Groups, OpenGroup(group)
    PROVE  IInv'
<1>1. PICK new \in SeqOf(Paths, MaxGroup) :
         LET s == [app EXCEPT !.tabs = @ \o [i \in DOMAIN new |-> ColdTab(new[i], FALSE)],
                              !.saveDue = TRUE]
         IN  /\ IsMissing(new, group)
             /\ Len(s.tabs) <= MaxTabs
             /\ app' = Switched(s, Find(s.tabs, Head(group)))
             /\ UNCHANGED <<session, busy>>
  BY DEF OpenGroup
<1> DEFINE more == app.tabs \o [i \in DOMAIN new |-> ColdTab(new[i], FALSE)]
           s == [app EXCEPT !.tabs = more, !.saveDue = TRUE]
<1>2. Agree(app) /\ app \in Views
  BY DEF IInv, Agree, Tidy
<1>3. s.tabs = more
  BY <1>2 DEF Views
<1>4. /\ IsMissing(new, group) /\ Len(more) <= MaxTabs
      /\ app' = Switched(s, Find(s.tabs, Head(group)))
      /\ UNCHANGED <<session, busy>>
  BY <1>1, <1>3
<1>5. Agree(s) /\ s.saveDue /\ Find(s.tabs, Head(group)) \in 1 .. Len(s.tabs)
  BY <1>2, <1>4, Grouping
<1> HIDE DEF s
<1>6. Covers(s, Len(session))
  BY <1>5 DEF Covers
<1>7. Agree(app') /\ Covers(app', Len(session))
  BY <1>4, <1>5, <1>6, SwitchingCovers
<1>8. UNCHANGED session /\ (busy' = busy \/ busy' = NoOperation)
  BY <1>4
<1> QED
  BY <1>7, <1>8, ViewChanges

LEMMA CreationKeeps ==
    ASSUME IInv,
           CreateOpens \/ CreateRegisters
    PROVE  IInv'
<1>1. /\ Agree(app) /\ app \in Views /\ Covers(app, Len(session))
      /\ Len(app.tabs) \in Nat
      /\ UNCHANGED session /\ busy' = NoOperation /\ busy.path \in Paths
  BY ViewTypes DEF IInv, Agree, Tidy, CreateOpens, CreateRegisters, Operations, NoOperation, Paths
<1>2. CASE CreateOpens
  BY <1>1, <1>2, OpensKeeps, ViewChanges DEF CreateOpens
<1>3. CASE CreateRegisters /\ Find(app.tabs, busy.path) = 0 /\ Len(app.tabs) < MaxTabs
  <2>1. app' = [app EXCEPT !.tabs = Append(@, ColdTab(busy.path, FALSE)), !.saveDue = TRUE]
    BY <1>3 DEF CreateRegisters
  <2>2. Agree(app') /\ app'.saveDue
    BY <1>1, <1>3, <2>1, Registering
  <2> QED
    BY <1>1, <2>2, ViewChanges DEF Covers
<1>4. CASE CreateRegisters /\ ~(Find(app.tabs, busy.path) = 0 /\ Len(app.tabs) < MaxTabs)
  <2>1. app' = [app EXCEPT !.saveDue = TRUE]
    BY <1>4 DEF CreateRegisters
  <2>2. /\ app' \in Views /\ app'.tabs = app.tabs /\ app'.active = app.active
        /\ app'.repository = app.repository /\ app'.path = app.path /\ app'.read = app.read
        /\ app'.saveDue
    BY <1>1, <2>1 DEF Views
  <2>3. Agree(app')
    BY <1>1, <2>2, Marking
  <2> QED
    BY <1>1, <2>2, <2>3, ViewChanges DEF Covers
<1> QED
  BY <1>2, <1>3, <1>4

\* The write and the creation that begin and end without touching a tab.
LEMMA OperationsKeep ==
    ASSUME IInv, \/ BeginWrite \/ EndWrite \/ CreateFails
                 \/ \E repo \in Repositories : BeginCreate(repo)
    PROVE  IInv'
<1>1. /\ app \in Views /\ UNCHANGED <<app, session>>
  BY DEF IInv, Agree, Tidy, BeginWrite, EndWrite, CreateFails, BeginCreate
<1>2. busy' \in {NoOperation} \cup Operations
  BY <1>1, ViewTypes DEF BeginWrite, EndWrite, CreateFails, BeginCreate, Operations
<1> QED
  BY <1>1, <1>2 DEF IInv, Agree, Tidy, Settled, Explained, Covers

LEMMA NextKeeps == IInv /\ [Next]_vars => IInv'
<1> SUFFICES ASSUME IInv, [Next]_vars
             PROVE  IInv'
  OBVIOUS
<1>1. ASSUME NEW p \in Paths, OpenPath(p)
      PROVE  IInv'
  BY <1>1, OpensKeeps, ViewChanges DEF OpenPath
<1>2. ASSUME NEW group \in Groups, OpenGroup(group)
      PROVE  IInv'
  BY <1>2, GroupKeeps
<1>3. ASSUME NEW i \in DOMAIN app.tabs, SwitchTab(i) \/ CloseTab(i) \/ MoveTab(i)
      PROVE  IInv'
  BY <1>3, TabsKeep
<1>4. CASE Refresh
  BY <1>4, RefreshKeeps
<1>5. CASE Select \/ ListReply
  BY <1>5, ReadingKeeps
<1>6. CASE OpenReply
  BY <1>6, ReplyKeeps
<1>7. CASE ReadFails
  BY <1>7, FailureKeeps
<1>8. CASE SaveSession
  BY <1>8, SaveKeeps
<1>9. CASE BeginWrite \/ EndWrite \/ CreateFails \/ \E repo \in Repositories : BeginCreate(repo)
  BY <1>9, OperationsKeep
<1>10. CASE CreateOpens \/ CreateRegisters
  BY <1>10, CreationKeeps
<1>11. CASE UNCHANGED vars
  BY <1>11 DEF vars, IInv, Agree, Tidy, Settled, Explained, Covers
<1> QED
  BY <1>1, <1>2, <1>3, <1>4, <1>5, <1>6, <1>7, <1>8, <1>9, <1>10, <1>11 DEF Next

-----------------------------------------------------------------------------

(***************************************************************************)
(* The invariant holds in every state that opening, switching, closing,     *)
(* moving, grouping and the replies of the reader lead to.                  *)
(***************************************************************************)
THEOREM Invariance == Spec => []IInv
<1>1. Init => IInv
  BY InitEstablishes
<1>2. IInv /\ [Next]_vars => IInv'
  BY NextKeeps
<1> QED
  BY <1>1, <1>2, PTL DEF Spec

(***************************************************************************)
(* No repository has two tabs, however it was named, the live one is that   *)
(* of the active tab, a warm tab holds the repository of its label, and a   *)
(* blank one says why: what tab_snapshot_accepted, retain_active_tab and    *)
(* restore_warm_tab keep together.                                          *)
(***************************************************************************)
THEOREM TabsTellTheTruth == Spec => []TabsAgree
<1>1. IInv => TabsAgree
  <2> SUFFICES ASSUME IInv
               PROVE  TabsAgree
    OBVIOUS
  <2>1. /\ app \in Views /\ app.tabs \in Seq(Tabs) /\ Len(app.tabs) \in Nat
        /\ Tidy(app) /\ Settled(app) /\ Explained(app)
    BY ViewTypes DEF IInv, Agree, Tidy
  <2>2. DOMAIN app.tabs = 1 .. Len(app.tabs)
    BY <2>1
  <2>3. TypeOK
    BY <2>1 DEF IInv, TypeOK, Tidy
  <2>4. NoDuplicateTabs
    BY <2>1, PathsDiffer DEF NoDuplicateTabs, Tidy
  <2>5. LiveIsActive
    BY <2>1, <2>2 DEF LiveIsActive, Tidy, Settled, Labelled
  <2>6. BlankTabIsExplained
    BY <2>1 DEF BlankTabIsExplained, Explained
  <2> QED
    BY <2>3, <2>4, <2>5, <2>6 DEF TabsAgree
<1> QED
  BY <1>1, Invariance, PTL

(***************************************************************************)
(* A tab that was closed, or that turned out to be another name of an open  *)
(* repository, is not in the saved session once no save is due.             *)
(***************************************************************************)
THEOREM ClosedTabsStayClosed == Spec => []SessionForgetsTabs
<1>1. IInv => SessionForgetsTabs
  <2> SUFFICES ASSUME IInv, app.active # 0, Len(session) > Len(app.tabs), ~app.saveDue
               PROVE  FALSE
    BY DEF SessionForgetsTabs
  <2>1. Len(session) <= Len(app.tabs) + 0
    BY DEF IInv, Covers
  <2>2. Len(session) \in Nat /\ Len(app.tabs) \in Nat
    BY ViewTypes DEF IInv, Agree, Tidy
  <2> QED
    BY <2>1, <2>2
<1> QED
  BY <1>1, Invariance, PTL
=============================================================================
