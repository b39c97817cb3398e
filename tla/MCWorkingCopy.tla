---------------------------- MODULE MCWorkingCopy ----------------------------
(***************************************************************************)
(* The reviewed operations on one working copy and its index: partial      *)
(* staging, whole files in the Changes list, recovery and the stash, and   *)
(* integration.  A behaviour is one of a single part; the state of the     *)
(* others stays as it began.                                               *)
(***************************************************************************)
EXTENDS PartialStaging, WorkingChanges, Recovery, Integration, TLC

VARIABLE part

partVars == <<part, vars, changesVars, recoveryVars, integrationVars>>

a == <<"a">>
ab == <<"a", "b">>
c == <<"c">>
ThreePaths == {a, ab, c}
IgnoredPaths == {a}

Tree(x, y, z) == (a :> x) @@ (ab :> y) @@ (c :> z)
Commit(tree, parents) == [tree |-> tree, parents |-> parents]

\* A file that becomes a directory and back, a file that changes, a merge.
TwoHistories ==
  LET t1 == Tree(1, Absent, 1)
      t2 == Tree(Absent, 1, 1)
      t3 == Tree(Absent, Absent, 2)
  IN { <<Commit(t1, <<>>), Commit(t2, <<1>>)>>,
       <<Commit(t3, <<>>), Commit(t1, <<1>>), Commit(t1, <<2, 1>>)>> }

\* A conflict in c and files that come and go: the destination removes or adds
\* an ignored file, a commit in the middle adds and removes one, the first commit
\* changes a file that the second and the destination remove.
FiveSituations ==
  { [base |-> Tree(1, Absent, Absent), mine |-> <<Tree(1, Absent, 1)>>,
     target |-> Tree(Absent, Absent, 2)],
    [base |-> Tree(Absent, Absent, 1),
     mine |-> <<Tree(Absent, 1, 2), Tree(Absent, Absent, 2)>>,
     target |-> Tree(Absent, Absent, 1)],
    [base |-> Tree(Absent, Absent, 1),
     mine |-> <<Tree(Absent, Absent, 2), Tree(1, Absent, 2)>>,
     target |-> Tree(Absent, Absent, Absent)],
    [base |-> Tree(Absent, 1, 1), mine |-> <<Tree(Absent, 1, 2)>>,
     target |-> Tree(1, Absent, 1)],
    [base |-> Tree(1, Absent, 1),
     mine |-> <<Tree(2, Absent, 1), Tree(Absent, Absent, 1)>>,
     target |-> Tree(Absent, Absent, 2)] }

\* What each module assumes of its constants.
ASSUME InstancesAreSound ==
  /\ PartialStagingAssumption /\ WorkingCopyAssumption
  /\ WorkingChangesAssumption /\ RecoveryAssumption /\ IntegrationAssumption

\* The parts that are not taken.
NoStaging ==
  /\ Init
  /\ \A f \in Files : index[f] = "c1" /\ work[f] = "c1"
NoChanges ==
  /\ head = EmptyTree /\ entries = EmptyTree /\ files = EmptyTree
  /\ ChangesInit
NoRecovery ==
  /\ hist = CHOOSE h \in TwoHistories : Len(h) = 2
  /\ remote = 0 /\ workTree = hist[2].tree
  /\ RecoveryInit
NoIntegration ==
  /\ target = EmptyTree /\ checkout = Tree(Absent, Absent, 2)
  /\ IntegrationInit

PartInit ==
  \/ /\ part = "staging" /\ Init
     /\ \A f \in Files : work[f] = "c2"     \* the contents of a file may be swapped
     /\ NoChanges /\ NoRecovery /\ NoIntegration
  \/ /\ part = "recovery" /\ RecoveryInit
     /\ Cardinality(Changes(indexTree, workTree)) <= 1     \* edits change more
     /\ NoStaging /\ NoChanges /\ NoIntegration
  \/ part = "integration" /\ IntegrationInit /\ NoStaging /\ NoChanges /\ NoRecovery
  \/ /\ part = "changes" /\ ChangesInit
     /\ 2 \notin {head[p] : p \in Paths}     \* every last commit with one content
     /\ NoStaging /\ NoRecovery /\ NoIntegration

PartNext ==
  /\ UNCHANGED part
  /\ \/ /\ part = "staging" /\ Next
        /\ UNCHANGED <<changesVars, recoveryVars, integrationVars>>
     \/ /\ part = "changes" /\ ChangesNext
        /\ UNCHANGED <<vars, recoveryVars, integrationVars>>
     \/ /\ part = "recovery" /\ RecoveryNext
        /\ UNCHANGED <<vars, changesVars, integrationVars>>
     \/ /\ part = "integration" /\ IntegrationNext
        /\ UNCHANGED <<vars, changesVars, recoveryVars>>

PartSpec == PartInit /\ [][PartNext]_partVars

DiscardSpec == PartInit /\ part = "changes" /\ [][PartNext]_partVars
=============================================================================
