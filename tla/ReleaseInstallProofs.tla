---------------------------- MODULE ReleaseInstallProofs --------------------------
(* What holds of ReleaseInstall for any number of installers, revisions and stops.   *)
EXTENDS ReleaseInstall, TLAPS

\* Installer i has a command under way that writes to the host.
Writes(i) ==
  /\ installer[i].pc \in Steps \ {"lock"}
  /\ AtStep(i, "cleanup") => installer[i].created

\* The steps between the proof of the release and the swap of the link.
Proved == {"spare", "switch"}
Making == {"own", "build", "mark", "chmod"}
Usable == {"partly", "whole"}

\* Every variable has its type.
InstallTypes ==
  /\ holder \in Installers \cup {None}
  /\ identity \subseteq {"group", "account"}
  /\ release \in [Revisions -> Contents]
  /\ link \in Revisions \cup {None}
  /\ unit \in Revisions \cup {None}
  /\ loaded \in Revisions \cup {None}
  /\ installer \in [Installers -> Installer]
  /\ stops \in 0..MaxStops
  /\ activated \subseteq Revisions

\* What a process knows at its step: its revision from the start, the name of the
\* temporary link while there is one, that it made the release until that is proved.
GoodProcess(e) ==
  /\ e.pc = "idle" => e = Unstarted
  /\ e.pc # "idle" => e.revision \in Revisions
  /\ e.pc = "switch" => e.spare = e.revision
  /\ e.spare # None => e.pc \in {"switch", "cleanup", "dead"}
  /\ e.pc \in Making \ {"own"} => e.created
  /\ e.pc \in {"lock", "group", "account", "release", "own", "spare", "switch", "unit",
               "reload"} => ~e.created

ProcessesGood == \A i \in Installers : GoodProcess(installer[i])

\* A release that was active is usable, and whoever may still change or remove a
\* release has it to itself and has not activated it.
ReleaseSafe ==
  /\ \A r \in activated : release[r] \in Usable
  /\ \A i \in Installers :
       /\ installer[i].pc \in Proved => release[installer[i].revision] \in Usable
       /\ Writes(i) /\ (installer[i].created \/ installer[i].pc \in Making)
            => installer[i].revision \notin activated

LockSafe ==
  /\ WritersHoldTheLock
  /\ \A i \in Installers :
       installer[i].pc \in Steps => installer[i].shell \/ RunsCommand(i)

\* What the steps behind a process have put in place is still there.
WorkInPlace ==
  \A i \in Installers :
    LET e == installer[i] IN
      /\ e.pc \in Steps \ {"lock", "group", "cleanup"} => "group" \in identity
      /\ e.pc \in Steps \ {"lock", "group", "account", "cleanup"} => "account" \in identity
      /\ e.pc \in {"unit", "reload"} => link = e.revision
      /\ e.pc = "reload" => unit = e.revision

\* The link leads to a release that was active.
LinkWasActive == link \in activated \cup {None}

\* While every way out of the script runs the trap: a release that is half built, or half
\* removed, has an installer that made it and is still at work on it, and one that is
\* about to be activated is whole.
Filling == {"build", "mark", "chmod", "cleanup"}
Unfinished == {"built", "marked", "partly"}
HasMaker(r) ==
  \E i \in Installers : /\ installer[i].revision = r
                        /\ installer[i].created
                        /\ installer[i].pc \in Filling
NothingHalfDone ==
  stops = 0 =>
    /\ \A i \in Installers : installer[i].shell
    /\ \A i \in Installers :
         installer[i].pc \in Proved \cup {"verify"} => release[installer[i].revision] = "whole"
    /\ \A r \in Revisions : release[r] \in Unfinished => HasMaker(r)
    /\ \A r \in activated : release[r] = "whole"

InstallInv ==
  /\ InstallTypes /\ ProcessesGood /\ LockSafe /\ ReleaseSafe /\ WorkInPlace
  /\ LinkWasActive /\ NothingHalfDone

\* What the update of a process by the removal of its release leaves.
LEMMA Disowned ==
  ASSUME InstallTypes, NEW i \in Installers, NEW next \in Steps \cup Ends,
         installer' = [installer EXCEPT ![i].created = FALSE, ![i].pc = next]
  PROVE  /\ installer' \in [Installers -> Installer]
         /\ installer'[i].pc = next /\ installer'[i].created = FALSE
         /\ installer'[i].revision = installer[i].revision
         /\ installer'[i].spare = installer[i].spare
         /\ \A j \in Installers \ {i} : installer'[j] = installer[j]
BY DEF InstallTypes, Installer

\* What the update of a process by the death of its shell leaves.
LEMMA Killed ==
  ASSUME InstallTypes, NEW i \in Installers, NEW next \in Steps \cup Ends,
         installer' = [installer EXCEPT ![i].shell = FALSE, ![i].pc = next]
  PROVE  /\ installer' \in [Installers -> Installer]
         /\ installer'[i].pc = next /\ installer'[i].created = installer[i].created
         /\ installer'[i].revision = installer[i].revision
         /\ installer'[i].spare = installer[i].spare
         /\ \A j \in Installers \ {i} : installer'[j] = installer[j]
BY DEF InstallTypes, Installer

\* Every step keeps the types.
LEMMA TypesKept ==
  ASSUME InstallTypes, ProcessesGood, [InstallNext]_vars
  PROVE  InstallTypes'
<1> USE InstallAssumption DEF InstallTypes, ProcessesGood, GoodProcess, Contents,
           Unstarted, AtStep, Installer, Steps, Ends
<1>1. SUFFICES ASSUME NEW i \in Installers,
                      (\E r \in Revisions : Start(i, r)) \/ Command(i) \/ KillShell(i)
                        \/ ChildFails(i)
               PROVE  InstallTypes'
  <2>1. CASE HostStops
    BY <2>1 DEF HostStops, Stop
  <2>2. CASE UNCHANGED vars
    BY <2>2 DEF vars, files, RunsCommand
  <2>3. QED
    BY <1>1, <2>1, <2>2 DEF InstallNext
<1>2. CASE TakeLock(i)
  BY <1>2 DEF TakeLock, files
<1>3. CASE EnsureGroup(i)
  BY <1>3 DEF EnsureGroup, Proceed, After, LockAfter
<1>4. CASE EnsureAccount(i)
  BY <1>4 DEF EnsureAccount, Proceed, After, LockAfter
<1>5. CASE ReuseRelease(i)
  BY <1>5 DEF ReuseRelease, Proceed, After, LockAfter, files
<1>6. CASE MakeDirectory(i)
  BY <1>6 DEF MakeDirectory, Proceed, After, LockAfter, Fill
<1>7. CASE Own(i)
  BY <1>7 DEF Own, files
<1>8. CASE Build(i)
  BY <1>8 DEF Build, Proceed, After, LockAfter, Fill
<1>9. CASE Mark(i)
  BY <1>9 DEF Mark, Proceed, After, LockAfter, Fill
<1>10. CASE GrantSome(i)
  BY <1>10 DEF GrantSome, Fill
<1>11. CASE GrantAll(i)
  BY <1>11 DEF GrantAll, Proceed, After, LockAfter, Fill
<1>12. CASE Verify(i)
  BY <1>12 DEF Verify, files
<1>13. CASE MakeSpareLink(i)
  BY <1>13 DEF MakeSpareLink, files
<1>14. CASE Switch(i)
  BY <1>14 DEF Switch
<1>15. CASE RemoveUnit(i)
  BY <1>15 DEF RemoveUnit
<1>16. CASE WriteUnit(i)
  BY <1>16 DEF WriteUnit, Proceed, After, LockAfter
<1>17. CASE Reload(i)
  BY <1>17 DEF Reload, After
<1>18. CASE Fail(i)
  BY <1>18 DEF Fail, files
<1>19. CASE RemoveSome(i)
  BY <1>19 DEF RemoveSome, Fill
<1>20. CASE RemoveRelease(i)
  <2>1. After(i, "cleanup") \in {"cleanup", "dead"}
    BY DEF After
  <2>2. /\ installer' \in [Installers -> Installer]
        /\ installer'[i].pc = After(i, "cleanup") /\ installer'[i].created = FALSE
        /\ installer'[i].revision = installer[i].revision
        /\ installer'[i].spare = installer[i].spare
        /\ \A j \in Installers \ {i} : installer'[j] = installer[j]
    <3>1. installer' = [installer EXCEPT ![i].created = FALSE, ![i].pc = After(i, "cleanup")]
      BY <1>20 DEF RemoveRelease
    <3>2. After(i, "cleanup") \in Steps \cup Ends
      BY <2>1
    <3> HIDE DEF InstallTypes, ProcessesGood, Steps, Ends, Installer
    <3>3. QED
      BY <3>1, <3>2, Disowned
  <2>3. installer[i].pc = "cleanup" /\ Fill(i, "absent") /\ holder' = LockAfter(i)
    BY <1>20 DEF RemoveRelease
  <2>4. QED
    BY <2>1, <2>2, <2>3 DEF Fill, LockAfter
<1>21. CASE EndTrap(i)
  BY <1>21 DEF EndTrap, files
<1>22. CASE KillShell(i)
  <2>1. Orphaned(i) \in {installer[i].pc, "dead"}
    BY DEF Orphaned
  <2>2. /\ installer' \in [Installers -> Installer]
        /\ installer'[i].pc = Orphaned(i) /\ installer'[i].created = installer[i].created
        /\ installer'[i].revision = installer[i].revision
        /\ installer'[i].spare = installer[i].spare
        /\ \A j \in Installers \ {i} : installer'[j] = installer[j]
    <3>1. installer' = [installer EXCEPT ![i].shell = FALSE, ![i].pc = Orphaned(i)]
      BY <1>22 DEF KillShell
    <3>2. Orphaned(i) \in Steps \cup Ends
      BY <2>1
    <3> HIDE DEF InstallTypes, ProcessesGood, Steps, Ends, Installer
    <3>3. QED
      BY <3>1, <3>2, Killed
  <2>3. /\ installer[i].pc \in Steps /\ UNCHANGED files
        /\ holder' = IF holder = i /\ ~RunsCommand(i) THEN None ELSE holder
    BY <1>22 DEF KillShell
  <2>4. stops' \in 0..MaxStops
    BY <1>22 DEF KillShell, Stop
  <2>5. QED
    BY <2>1, <2>2, <2>3, <2>4 DEF files
<1>23. CASE ChildFails(i)
  BY <1>23 DEF ChildFails, files, Proceed, After, LockAfter
<1>24. CASE \E r \in Revisions : Start(i, r)
  <2>1. PICK r \in Revisions : Start(i, r)
    BY <1>24
  <2>2. QED
    BY <2>1 DEF Start, files
<1>25. QED
    BY <1>1, <1>2, <1>3, <1>4, <1>5, <1>6, <1>7, <1>8, <1>9, <1>10, <1>11, <1>12, <1>13,
     <1>14, <1>15, <1>16, <1>17, <1>18, <1>19, <1>20, <1>21, <1>22, <1>23, <1>24 DEF
     Command

\* Every step keeps what a process knows.
LEMMA ProcessesKept ==
  ASSUME InstallTypes, ProcessesGood, LockSafe, [InstallNext]_vars
  PROVE  ProcessesGood'
<1> USE InstallAssumption DEF InstallTypes, ProcessesGood, GoodProcess, LockSafe,
           RunsCommand, Making,
           Unstarted, AtStep, Installer, Steps, Ends
<1>1. SUFFICES ASSUME NEW i \in Installers,
                      (\E r \in Revisions : Start(i, r)) \/ Command(i) \/ KillShell(i)
                        \/ ChildFails(i)
               PROVE  ProcessesGood'
  <2>1. CASE HostStops
    BY <2>1 DEF HostStops, Stop
  <2>2. CASE UNCHANGED vars
    BY <2>2 DEF vars, files, RunsCommand
  <2>3. QED
    BY <1>1, <2>1, <2>2 DEF InstallNext
<1>2. CASE TakeLock(i)
  BY <1>2 DEF TakeLock, files
<1>3. CASE EnsureGroup(i)
  BY <1>3 DEF EnsureGroup, Proceed, After, LockAfter
<1>4. CASE EnsureAccount(i)
  BY <1>4 DEF EnsureAccount, Proceed, After, LockAfter
<1>5. CASE ReuseRelease(i)
  BY <1>5 DEF ReuseRelease, Proceed, After, LockAfter, files
<1>6. CASE MakeDirectory(i)
  BY <1>6 DEF MakeDirectory, Proceed, After, LockAfter, Fill
<1>7. CASE Own(i)
  BY <1>7 DEF Own, files
<1>8. CASE Build(i)
  BY <1>8 DEF Build, Proceed, After, LockAfter, Fill
<1>9. CASE Mark(i)
  BY <1>9 DEF Mark, Proceed, After, LockAfter, Fill
<1>10. CASE GrantSome(i)
  BY <1>10 DEF GrantSome, Fill
<1>11. CASE GrantAll(i)
  BY <1>11 DEF GrantAll, Proceed, After, LockAfter, Fill
<1>12. CASE Verify(i)
  BY <1>12 DEF Verify, files
<1>13. CASE MakeSpareLink(i)
  BY <1>13 DEF MakeSpareLink, files
<1>14. CASE Switch(i)
  BY <1>14 DEF Switch
<1>15. CASE RemoveUnit(i)
  BY <1>15 DEF RemoveUnit
<1>16. CASE WriteUnit(i)
  BY <1>16 DEF WriteUnit, Proceed, After, LockAfter
<1>17. CASE Reload(i)
  BY <1>17 DEF Reload, After
<1>18. CASE Fail(i)
  BY <1>18 DEF Fail, files
<1>19. CASE RemoveSome(i)
  BY <1>19 DEF RemoveSome, Fill
<1>20. CASE RemoveRelease(i)
  <2>1. After(i, "cleanup") \in {"cleanup", "dead"}
    BY DEF After
  <2>2. /\ installer' \in [Installers -> Installer]
        /\ installer'[i].pc = After(i, "cleanup") /\ installer'[i].created = FALSE
        /\ installer'[i].revision = installer[i].revision
        /\ installer'[i].spare = installer[i].spare
        /\ \A j \in Installers \ {i} : installer'[j] = installer[j]
    <3>1. installer' = [installer EXCEPT ![i].created = FALSE, ![i].pc = After(i, "cleanup")]
      BY <1>20 DEF RemoveRelease
    <3>2. After(i, "cleanup") \in Steps \cup Ends
      BY <2>1
    <3> HIDE DEF InstallTypes, ProcessesGood, Steps, Ends, Installer
    <3>3. QED
      BY <3>1, <3>2, Disowned
  <2>3. installer[i].pc = "cleanup" /\ Fill(i, "absent") /\ holder' = LockAfter(i)
    BY <1>20 DEF RemoveRelease
  <2>4. QED
    BY <2>1, <2>2, <2>3 DEF Fill, LockAfter
<1>21. CASE EndTrap(i)
  BY <1>21 DEF EndTrap, files
<1>22. CASE KillShell(i)
  <2>1. Orphaned(i) \in {installer[i].pc, "dead"}
    BY DEF Orphaned
  <2>2. /\ installer' \in [Installers -> Installer]
        /\ installer'[i].pc = Orphaned(i) /\ installer'[i].created = installer[i].created
        /\ installer'[i].revision = installer[i].revision
        /\ installer'[i].spare = installer[i].spare
        /\ \A j \in Installers \ {i} : installer'[j] = installer[j]
    <3>1. installer' = [installer EXCEPT ![i].shell = FALSE, ![i].pc = Orphaned(i)]
      BY <1>22 DEF KillShell
    <3>2. Orphaned(i) \in Steps \cup Ends
      BY <2>1
    <3> HIDE DEF InstallTypes, ProcessesGood, Steps, Ends, Installer
    <3>3. QED
      BY <3>1, <3>2, Killed
  <2>3. /\ installer[i].pc \in Steps /\ UNCHANGED files
        /\ holder' = IF holder = i /\ ~RunsCommand(i) THEN None ELSE holder
    BY <1>22 DEF KillShell
  <2>4. stops' \in 0..MaxStops
    BY <1>22 DEF KillShell, Stop
  <2>5. QED
    BY <2>1, <2>2, <2>3, <2>4 DEF files
<1>23. CASE ChildFails(i)
  BY <1>23 DEF ChildFails, files, Proceed, After, LockAfter
<1>24. CASE \E r \in Revisions : Start(i, r)
  <2>1. PICK r \in Revisions : Start(i, r)
    BY <1>24
  <2>2. QED
    BY <2>1 DEF Start, files
<1>25. QED
    BY <1>1, <1>2, <1>3, <1>4, <1>5, <1>6, <1>7, <1>8, <1>9, <1>10, <1>11, <1>12, <1>13,
     <1>14, <1>15, <1>16, <1>17, <1>18, <1>19, <1>20, <1>21, <1>22, <1>23, <1>24 DEF
     Command

\* Every step leaves the lock with whoever writes.
LEMMA LockKept ==
  ASSUME InstallTypes, ProcessesGood, LockSafe, [InstallNext]_vars
  PROVE  LockSafe'
<1> USE InstallAssumption DEF InstallTypes, ProcessesGood, GoodProcess, LockSafe,
           WritersHoldTheLock,
           RunsCommand, Making, Unstarted, AtStep, Installer, Steps, Ends
<1>1. SUFFICES ASSUME NEW i \in Installers,
                      (\E r \in Revisions : Start(i, r)) \/ Command(i) \/ KillShell(i)
                        \/ ChildFails(i)
               PROVE  LockSafe'
  <2>1. CASE HostStops
    BY <2>1 DEF HostStops, Stop
  <2>2. CASE UNCHANGED vars
    BY <2>2 DEF vars, files, RunsCommand
  <2>3. QED
    BY <1>1, <2>1, <2>2 DEF InstallNext
<1>2. CASE TakeLock(i)
  BY <1>2 DEF TakeLock, files
<1>3. CASE EnsureGroup(i)
  BY <1>3 DEF EnsureGroup, Proceed, After, LockAfter
<1>4. CASE EnsureAccount(i)
  BY <1>4 DEF EnsureAccount, Proceed, After, LockAfter
<1>5. CASE ReuseRelease(i)
  BY <1>5 DEF ReuseRelease, Proceed, After, LockAfter, files
<1>6. CASE MakeDirectory(i)
  BY <1>6 DEF MakeDirectory, Proceed, After, LockAfter, Fill
<1>7. CASE Own(i)
  BY <1>7 DEF Own, files
<1>8. CASE Build(i)
  BY <1>8 DEF Build, Proceed, After, LockAfter, Fill
<1>9. CASE Mark(i)
  BY <1>9 DEF Mark, Proceed, After, LockAfter, Fill
<1>10. CASE GrantSome(i)
  BY <1>10 DEF GrantSome, Fill
<1>11. CASE GrantAll(i)
  BY <1>11 DEF GrantAll, Proceed, After, LockAfter, Fill
<1>12. CASE Verify(i)
  BY <1>12 DEF Verify, files
<1>13. CASE MakeSpareLink(i)
  BY <1>13 DEF MakeSpareLink, files
<1>14. CASE Switch(i)
  BY <1>14 DEF Switch
<1>15. CASE RemoveUnit(i)
  BY <1>15 DEF RemoveUnit
<1>16. CASE WriteUnit(i)
  BY <1>16 DEF WriteUnit, Proceed, After, LockAfter
<1>17. CASE Reload(i)
  BY <1>17 DEF Reload, After
<1>18. CASE Fail(i)
  BY <1>18 DEF Fail, files
<1>19. CASE RemoveSome(i)
  BY <1>19 DEF RemoveSome, Fill
<1>20. CASE RemoveRelease(i)
  BY <1>20 DEF RemoveRelease, After, LockAfter, Fill
<1>21. CASE EndTrap(i)
  BY <1>21 DEF EndTrap, files
<1>22. CASE KillShell(i)
  BY <1>22 DEF KillShell, files, Stop, RunsCommand, Orphaned
<1>23. CASE ChildFails(i)
  BY <1>23 DEF ChildFails, files, Proceed, After, LockAfter
<1>24. CASE \E r \in Revisions : Start(i, r)
  <2>1. PICK r \in Revisions : Start(i, r)
    BY <1>24
  <2>2. QED
    BY <2>1 DEF Start, files
<1>25. QED
    BY <1>1, <1>2, <1>3, <1>4, <1>5, <1>6, <1>7, <1>8, <1>9, <1>10, <1>11, <1>12, <1>13,
     <1>14, <1>15, <1>16, <1>17, <1>18, <1>19, <1>20, <1>21, <1>22, <1>23, <1>24 DEF
     Command

\* Every step keeps releases that were active, because only the holder of the lock
\* changes one, and only one that was not.
LEMMA ReleasesKept ==
  ASSUME InstallTypes, ProcessesGood, LockSafe, ReleaseSafe, [InstallNext]_vars
  PROVE  ReleaseSafe'
<1> USE InstallAssumption DEF InstallTypes, ProcessesGood, GoodProcess, LockSafe,
           WritersHoldTheLock,
           ReleaseSafe, Writes, Proved, Making, Usable, RunsCommand, Unstarted, Contents, AtStep, Installer, Steps, Ends
<1>1. SUFFICES ASSUME NEW i \in Installers,
                      (\E r \in Revisions : Start(i, r)) \/ Command(i) \/ KillShell(i)
                        \/ ChildFails(i)
               PROVE  ReleaseSafe'
  <2>1. CASE HostStops
    BY <2>1 DEF HostStops, Stop
  <2>2. CASE UNCHANGED vars
    BY <2>2 DEF vars, files, RunsCommand
  <2>3. QED
    BY <1>1, <2>1, <2>2 DEF InstallNext
<1>2. CASE TakeLock(i)
  BY <1>2 DEF TakeLock, files
<1>3. CASE EnsureGroup(i)
  BY <1>3 DEF EnsureGroup, Proceed, After, LockAfter
<1>4. CASE EnsureAccount(i)
  BY <1>4 DEF EnsureAccount, Proceed, After, LockAfter
<1>5. CASE ReuseRelease(i)
  BY <1>5 DEF ReuseRelease, Proceed, After, LockAfter, files
<1>6. CASE MakeDirectory(i)
  BY <1>6 DEF MakeDirectory, Proceed, After, LockAfter, Fill
<1>7. CASE Own(i)
  BY <1>7 DEF Own, files
<1>8. CASE Build(i)
  BY <1>8 DEF Build, Proceed, After, LockAfter, Fill
<1>9. CASE Mark(i)
  BY <1>9 DEF Mark, Proceed, After, LockAfter, Fill
<1>10. CASE GrantSome(i)
  BY <1>10 DEF GrantSome, Fill
<1>11. CASE GrantAll(i)
  BY <1>11 DEF GrantAll, Proceed, After, LockAfter, Fill
<1>12. CASE Verify(i)
  BY <1>12 DEF Verify, files
<1>13. CASE MakeSpareLink(i)
  BY <1>13 DEF MakeSpareLink, files
<1>14. CASE Switch(i)
  BY <1>14 DEF Switch
<1>15. CASE RemoveUnit(i)
  BY <1>15 DEF RemoveUnit
<1>16. CASE WriteUnit(i)
  BY <1>16 DEF WriteUnit, Proceed, After, LockAfter
<1>17. CASE Reload(i)
  BY <1>17 DEF Reload, After
<1>18. CASE Fail(i)
  BY <1>18 DEF Fail, files
<1>19. CASE RemoveSome(i)
  BY <1>19 DEF RemoveSome, Fill
<1>20. CASE RemoveRelease(i)
  BY <1>20 DEF RemoveRelease, After, LockAfter, Fill
<1>21. CASE EndTrap(i)
  BY <1>21 DEF EndTrap, files
<1>22. CASE KillShell(i)
  BY <1>22 DEF KillShell, files, Stop, RunsCommand, Orphaned
<1>23. CASE ChildFails(i)
  BY <1>23 DEF ChildFails, files, Proceed, After, LockAfter
<1>24. CASE \E r \in Revisions : Start(i, r)
  <2>1. PICK r \in Revisions : Start(i, r)
    BY <1>24
  <2>2. QED
    BY <2>1 DEF Start, files
<1>25. QED
    BY <1>1, <1>2, <1>3, <1>4, <1>5, <1>6, <1>7, <1>8, <1>9, <1>10, <1>11, <1>12, <1>13,
     <1>14, <1>15, <1>16, <1>17, <1>18, <1>19, <1>20, <1>21, <1>22, <1>23, <1>24 DEF
     Command

\* Every step keeps in place what other steps rely on, because only the holder of the
\* lock changes the link and the unit.
LEMMA WorkKept ==
  ASSUME InstallTypes, ProcessesGood, LockSafe, WorkInPlace, [InstallNext]_vars
  PROVE  WorkInPlace'
<1> USE InstallAssumption DEF InstallTypes, ProcessesGood, GoodProcess, LockSafe,
           WritersHoldTheLock,
           WorkInPlace, RunsCommand, Making, Unstarted, AtStep, Installer, Steps, Ends
<1>1. SUFFICES ASSUME NEW i \in Installers,
                      (\E r \in Revisions : Start(i, r)) \/ Command(i) \/ KillShell(i)
                        \/ ChildFails(i)
               PROVE  WorkInPlace'
  <2>1. CASE HostStops
    BY <2>1 DEF HostStops, Stop
  <2>2. CASE UNCHANGED vars
    BY <2>2 DEF vars, files, RunsCommand
  <2>3. QED
    BY <1>1, <2>1, <2>2 DEF InstallNext
<1>2. CASE TakeLock(i)
  BY <1>2 DEF TakeLock, files
<1>3. CASE EnsureGroup(i)
  BY <1>3 DEF EnsureGroup, Proceed, After, LockAfter
<1>4. CASE EnsureAccount(i)
  BY <1>4 DEF EnsureAccount, Proceed, After, LockAfter
<1>5. CASE ReuseRelease(i)
  BY <1>5 DEF ReuseRelease, Proceed, After, LockAfter, files
<1>6. CASE MakeDirectory(i)
  BY <1>6 DEF MakeDirectory, Proceed, After, LockAfter, Fill
<1>7. CASE Own(i)
  BY <1>7 DEF Own, files
<1>8. CASE Build(i)
  BY <1>8 DEF Build, Proceed, After, LockAfter, Fill
<1>9. CASE Mark(i)
  BY <1>9 DEF Mark, Proceed, After, LockAfter, Fill
<1>10. CASE GrantSome(i)
  BY <1>10 DEF GrantSome, Fill
<1>11. CASE GrantAll(i)
  BY <1>11 DEF GrantAll, Proceed, After, LockAfter, Fill
<1>12. CASE Verify(i)
  BY <1>12 DEF Verify, files
<1>13. CASE MakeSpareLink(i)
  BY <1>13 DEF MakeSpareLink, files
<1>14. CASE Switch(i)
  BY <1>14 DEF Switch
<1>15. CASE RemoveUnit(i)
  BY <1>15 DEF RemoveUnit
<1>16. CASE WriteUnit(i)
  BY <1>16 DEF WriteUnit, Proceed, After, LockAfter
<1>17. CASE Reload(i)
  BY <1>17 DEF Reload, After
<1>18. CASE Fail(i)
  BY <1>18 DEF Fail, files
<1>19. CASE RemoveSome(i)
  BY <1>19 DEF RemoveSome, Fill
<1>20. CASE RemoveRelease(i)
  BY <1>20 DEF RemoveRelease, After, LockAfter, Fill
<1>21. CASE EndTrap(i)
  BY <1>21 DEF EndTrap, files
<1>22. CASE KillShell(i)
  BY <1>22 DEF KillShell, files, Stop, RunsCommand, Orphaned
<1>23. CASE ChildFails(i)
  BY <1>23 DEF ChildFails, files, Proceed, After, LockAfter
<1>24. CASE \E r \in Revisions : Start(i, r)
  <2>1. PICK r \in Revisions : Start(i, r)
    BY <1>24
  <2>2. QED
    BY <2>1 DEF Start, files
<1>25. QED
    BY <1>1, <1>2, <1>3, <1>4, <1>5, <1>6, <1>7, <1>8, <1>9, <1>10, <1>11, <1>12, <1>13,
     <1>14, <1>15, <1>16, <1>17, <1>18, <1>19, <1>20, <1>21, <1>22, <1>23, <1>24 DEF
     Command

\* Every step keeps the link where something was activated.
LEMMA LinkKept ==
  ASSUME LinkWasActive, [InstallNext]_vars
  PROVE  LinkWasActive'
BY DEF LinkWasActive, vars, files, InstallNext, Command, HostStops, Start, KillShell,
  ChildFails, TakeLock, EnsureGroup, EnsureAccount, ReuseRelease, MakeDirectory, Own, Build,
  Mark, GrantSome, GrantAll, Verify, MakeSpareLink, Switch, RemoveUnit, WriteUnit, Reload,
  Fail, RemoveSome, RemoveRelease, EndTrap, Fill

\* While nothing is stopped, every step keeps what is half done in the hands of the
\* installer that holds the lock.
LEMMA HalfDoneKept ==
  ASSUME InstallTypes, ProcessesGood, LockSafe, ReleaseSafe, NothingHalfDone,
         [InstallNext]_vars
  PROVE  NothingHalfDone'
<1> USE InstallAssumption DEF InstallTypes, ProcessesGood, GoodProcess, LockSafe,
           WritersHoldTheLock, ReleaseSafe, NothingHalfDone, HasMaker, Filling, Unfinished,
           Writes, Proved, Making, RunsCommand, Contents, AtStep, Installer, Steps, Ends
<1>1. SUFFICES ASSUME NEW i \in Installers,
                      (\E r \in Revisions : Start(i, r)) \/ Command(i) \/ KillShell(i)
                        \/ ChildFails(i)
               PROVE  NothingHalfDone'
  <2>1. CASE HostStops
    BY <2>1 DEF HostStops, Stop
  <2>2. CASE UNCHANGED vars
    BY <2>2 DEF vars, files
  <2>3. QED
    BY <1>1, <2>1, <2>2 DEF InstallNext
<1>2. CASE TakeLock(i)
  BY <1>2 DEF TakeLock, files
<1>3. CASE EnsureGroup(i)
  BY <1>3 DEF EnsureGroup, Proceed, After, LockAfter
<1>4. CASE EnsureAccount(i)
  BY <1>4 DEF EnsureAccount, Proceed, After, LockAfter
<1>5. CASE ReuseRelease(i)
  BY <1>5 DEF ReuseRelease, Proceed, After, LockAfter, files
<1>6. CASE MakeDirectory(i)
  BY <1>6 DEF MakeDirectory, Proceed, After, LockAfter, Fill
<1>7. CASE Own(i)
  BY <1>7 DEF Own, files
<1>8. CASE Build(i)
  BY <1>8 DEF Build, Proceed, After, LockAfter, Fill
<1>9. CASE Mark(i)
  BY <1>9 DEF Mark, Proceed, After, LockAfter, Fill
<1>10. CASE GrantSome(i)
  BY <1>10 DEF GrantSome, Fill
<1>11. CASE GrantAll(i)
  BY <1>11 DEF GrantAll, Proceed, After, LockAfter, Fill
<1>12. CASE Verify(i)
  BY <1>12 DEF Verify, files
<1>13. CASE MakeSpareLink(i)
  BY <1>13 DEF MakeSpareLink, files
<1>14. CASE Switch(i)
  BY <1>14 DEF Switch
<1>15. CASE RemoveUnit(i)
  BY <1>15 DEF RemoveUnit
<1>16. CASE WriteUnit(i)
  BY <1>16 DEF WriteUnit, Proceed, After, LockAfter
<1>17. CASE Reload(i)
  BY <1>17 DEF Reload, After
<1>18. CASE Fail(i)
  BY <1>18 DEF Fail, files
<1>19. CASE RemoveSome(i)
  BY <1>19 DEF RemoveSome, Fill
<1>20. CASE RemoveRelease(i)
  BY <1>20 DEF RemoveRelease, After, LockAfter, Fill
<1>21. CASE EndTrap(i)
  BY <1>21 DEF EndTrap, files
<1>22. CASE KillShell(i)
  BY <1>22 DEF KillShell, Stop
<1>23. CASE ChildFails(i)
  BY <1>23 DEF ChildFails, files
<1>24. ASSUME NEW r \in Revisions, Start(i, r)
      PROVE  NothingHalfDone'
  BY <1>24 DEF Start, files
<1>25. QED
  BY <1>1, <1>2, <1>3, <1>4, <1>5, <1>6, <1>7, <1>8, <1>9, <1>10, <1>11, <1>12, <1>13,
     <1>14, <1>15, <1>16, <1>17, <1>18, <1>19, <1>20, <1>21, <1>22, <1>23, <1>24
  DEF Command

\* A step changes a release only for the holder of the lock, and not one that was active.
LEMMA ActivatedKept ==
  ASSUME InstallTypes, ProcessesGood, LockSafe, ReleaseSafe, [InstallNext]_vars
  PROVE  (\A r \in activated : release'[r] = release[r])
<1> USE InstallAssumption DEF InstallTypes, ProcessesGood, GoodProcess, LockSafe,
           WritersHoldTheLock,
           ReleaseSafe, Writes, Making, Usable, RunsCommand, AtStep, Installer, Steps, Ends
<1>1. SUFFICES ASSUME NEW i \in Installers,
                      (\E r \in Revisions : Start(i, r)) \/ Command(i) \/ KillShell(i)
                        \/ ChildFails(i)
               PROVE  (\A r \in activated : release'[r] = release[r])
  <2>1. CASE HostStops
    BY <2>1 DEF HostStops, Stop
  <2>2. CASE UNCHANGED vars
    BY <2>2 DEF vars, files, RunsCommand
  <2>3. QED
    BY <1>1, <2>1, <2>2 DEF InstallNext
<1>2. CASE TakeLock(i)
  BY <1>2 DEF TakeLock, files
<1>3. CASE EnsureGroup(i)
  BY <1>3 DEF EnsureGroup, Proceed, After, LockAfter
<1>4. CASE EnsureAccount(i)
  BY <1>4 DEF EnsureAccount, Proceed, After, LockAfter
<1>5. CASE ReuseRelease(i)
  BY <1>5 DEF ReuseRelease, Proceed, After, LockAfter, files
<1>6. CASE MakeDirectory(i)
  BY <1>6 DEF MakeDirectory, Proceed, After, LockAfter, Fill
<1>7. CASE Own(i)
  BY <1>7 DEF Own, files
<1>8. CASE Build(i)
  BY <1>8 DEF Build, Proceed, After, LockAfter, Fill
<1>9. CASE Mark(i)
  BY <1>9 DEF Mark, Proceed, After, LockAfter, Fill
<1>10. CASE GrantSome(i)
  BY <1>10 DEF GrantSome, Fill
<1>11. CASE GrantAll(i)
  BY <1>11 DEF GrantAll, Proceed, After, LockAfter, Fill
<1>12. CASE Verify(i)
  BY <1>12 DEF Verify, files
<1>13. CASE MakeSpareLink(i)
  BY <1>13 DEF MakeSpareLink, files
<1>14. CASE Switch(i)
  BY <1>14 DEF Switch
<1>15. CASE RemoveUnit(i)
  BY <1>15 DEF RemoveUnit
<1>16. CASE WriteUnit(i)
  BY <1>16 DEF WriteUnit, Proceed, After, LockAfter
<1>17. CASE Reload(i)
  BY <1>17 DEF Reload, After
<1>18. CASE Fail(i)
  BY <1>18 DEF Fail, files
<1>19. CASE RemoveSome(i)
  BY <1>19 DEF RemoveSome, Fill
<1>20. CASE RemoveRelease(i)
  BY <1>20 DEF RemoveRelease, After, LockAfter, Fill
<1>21. CASE EndTrap(i)
  BY <1>21 DEF EndTrap, files
<1>22. CASE KillShell(i)
  BY <1>22 DEF KillShell, files, Stop, RunsCommand, Orphaned
<1>23. CASE ChildFails(i)
  BY <1>23 DEF ChildFails, files, Proceed, After, LockAfter
<1>24. CASE \E r \in Revisions : Start(i, r)
  <2>1. PICK r \in Revisions : Start(i, r)
    BY <1>24
  <2>2. QED
    BY <2>1 DEF Start, files
<1>25. QED
    BY <1>1, <1>2, <1>3, <1>4, <1>5, <1>6, <1>7, <1>8, <1>9, <1>10, <1>11, <1>12, <1>13,
     <1>14, <1>15, <1>16, <1>17, <1>18, <1>19, <1>20, <1>21, <1>22, <1>23, <1>24 DEF
     Command

\* The invariant holds at the start.
LEMMA InvStart == InstallInit => InstallInv
BY InstallAssumption DEF InstallInit, InstallInv, InstallTypes, ProcessesGood, GoodProcess,
  LockSafe, WritersHoldTheLock, ReleaseSafe, WorkInPlace, LinkWasActive, NothingHalfDone,
  Unfinished, Writes, Proved, Making, Usable, RunsCommand, AtStep, Installer, Unstarted,
  Steps, Ends, Contents

\* Every step keeps the invariant.
LEMMA InvKept == InstallInv /\ [InstallNext]_vars => InstallInv'
BY TypesKept, ProcessesKept, LockKept, ReleasesKept, WorkKept, LinkKept, HalfDoneKept
   DEF InstallInv

\* The invariant of the installation.
THEOREM InstallInvariant == InstallSpec => []InstallInv
BY InvStart, InvKept, PTL DEF InstallSpec

\* Every variable keeps its type, and the name of a temporary link is forgotten with it
\* (install.sh:359), for any number of installers and stops.
THEOREM InstallTypeCorrect == InstallSpec => []InstallTypeOK
<1>1. InstallInv => InstallTypeOK
  BY DEF InstallInv, InstallTypes, ProcessesGood, GoodProcess, InstallTypeOK
<1>2. QED
  BY <1>1, InstallInvariant, PTL

\* Whoever writes holds the lock (install.sh:149), for any number of installers, also
\* when shells are killed and the host stops.
THEOREM InstallersExcludeEachOther == InstallSpec => []WritersHoldTheLock
<1>1. InstallInv => WritersHoldTheLock
  BY DEF InstallInv, LockSafe
<1>2. QED
  BY <1>1, InstallInvariant, PTL

\* As long as every failure and signal runs the EXIT trap (install.sh:23-38), the link
\* leads only to a completely installed release: however many installers build, reuse
\* and remove the same release, what is half done has its maker, who holds the lock.
THEOREM CompleteUnlessStoppedHolds == InstallSpec => []CompleteUnlessStopped
<1>1. InstallInv => CompleteUnlessStopped
  BY DEF InstallInv, LinkWasActive, NothingHalfDone, CompleteUnlessStopped, ActiveIsComplete
<1>2. QED
  BY <1>1, InstallInvariant, PTL

\* A release that was ever active is never changed or removed again (install.sh:354).
THEOREM ActivatedReleasesAreKept == InstallSpec => ActivatedIsKept
<1>1. InstallInv /\ [InstallNext]_vars => \A r \in activated : release'[r] = release[r]
  BY ActivatedKept DEF InstallInv
<1>2. InstallInv /\ [InstallNext]_vars
        => [\A r \in activated : release'[r] = release[r]]_vars
  BY <1>1
<1>3. QED
  BY <1>2, InstallInvariant, PTL DEF InstallSpec, ActivatedIsKept

\* Whoever reports success has put everything in place (install.sh:363).
LEMMA SuccessStep ==
  ASSUME InstallInv, InstallNext, NEW i \in Installers,
         installer[i].pc # "done", installer'[i].pc = "done"
  PROVE  /\ {link', unit', loaded'} = {installer[i].revision}
         /\ identity' = {"group", "account"}
<1>1. Reload(i)
  <2> USE DEF InstallInv, InstallTypes, AtStep, Installer, Steps
  <2>1. ASSUME NEW j \in Installers, TakeLock(j) PROVE installer'[i].pc # "done"
    BY <2>1 DEF TakeLock, files
  <2>2. ASSUME NEW j \in Installers, EnsureGroup(j) PROVE installer'[i].pc # "done"
    BY <2>2 DEF EnsureGroup, Proceed, After, LockAfter
  <2>3. ASSUME NEW j \in Installers, EnsureAccount(j) PROVE installer'[i].pc # "done"
    BY <2>3 DEF EnsureAccount, Proceed, After, LockAfter
  <2>4. ASSUME NEW j \in Installers, ReuseRelease(j) PROVE installer'[i].pc # "done"
    BY <2>4 DEF ReuseRelease, Proceed, After, LockAfter, files
  <2>5. ASSUME NEW j \in Installers, MakeDirectory(j) PROVE installer'[i].pc # "done"
    BY <2>5 DEF MakeDirectory, Proceed, After, LockAfter, Fill
  <2>6. ASSUME NEW j \in Installers, Own(j) PROVE installer'[i].pc # "done"
    BY <2>6 DEF Own, files
  <2>7. ASSUME NEW j \in Installers, Build(j) PROVE installer'[i].pc # "done"
    BY <2>7 DEF Build, Proceed, After, LockAfter, Fill
  <2>8. ASSUME NEW j \in Installers, Mark(j) PROVE installer'[i].pc # "done"
    BY <2>8 DEF Mark, Proceed, After, LockAfter, Fill
  <2>9. ASSUME NEW j \in Installers, GrantSome(j) PROVE installer'[i].pc # "done"
    BY <2>9 DEF GrantSome, Fill
  <2>10. ASSUME NEW j \in Installers, GrantAll(j) PROVE installer'[i].pc # "done"
    BY <2>10 DEF GrantAll, Proceed, After, LockAfter, Fill
  <2>11. ASSUME NEW j \in Installers, Verify(j) PROVE installer'[i].pc # "done"
    BY <2>11 DEF Verify, files
  <2>12. ASSUME NEW j \in Installers, MakeSpareLink(j) PROVE installer'[i].pc # "done"
    BY <2>12 DEF MakeSpareLink, files
  <2>13. ASSUME NEW j \in Installers, Switch(j) PROVE installer'[i].pc # "done"
    BY <2>13 DEF Switch
  <2>14. ASSUME NEW j \in Installers, RemoveUnit(j) PROVE installer'[i].pc # "done"
    BY <2>14 DEF RemoveUnit
  <2>15. ASSUME NEW j \in Installers, WriteUnit(j) PROVE installer'[i].pc # "done"
    BY <2>15 DEF WriteUnit, Proceed, After, LockAfter
  <2>16. ASSUME NEW j \in Installers, Fail(j) PROVE installer'[i].pc # "done"
    BY <2>16 DEF Fail, files
  <2>17. ASSUME NEW j \in Installers, RemoveSome(j) PROVE installer'[i].pc # "done"
    BY <2>17 DEF RemoveSome, Fill
  <2>18. ASSUME NEW j \in Installers, RemoveRelease(j) PROVE installer'[i].pc # "done"
    BY <2>18 DEF RemoveRelease, After, LockAfter, Fill
  <2>19. ASSUME NEW j \in Installers, EndTrap(j) PROVE installer'[i].pc # "done"
    BY <2>19 DEF EndTrap, files
  <2>20. ASSUME NEW j \in Installers, KillShell(j) PROVE installer'[i].pc # "done"
    <3>1. Orphaned(j) # "done"
      BY <2>20 DEF KillShell, Orphaned
    <3>2. QED
      BY <2>20, <3>1 DEF KillShell
  <2>21. ASSUME NEW j \in Installers, ChildFails(j) PROVE installer'[i].pc # "done"
    BY <2>21 DEF ChildFails, files, Proceed, After, LockAfter
  <2>22. ASSUME NEW j \in Installers, NEW r \in Revisions, Start(j, r)
         PROVE  installer'[i].pc # "done"
    BY <2>22 DEF Start
  <2>23. CASE HostStops
    BY <2>23 DEF HostStops
  <2>24. ASSUME NEW j \in Installers, Reload(j) PROVE i = j
    BY <2>24 DEF Reload
  <2>25. QED
    BY <2>1, <2>2, <2>3, <2>4, <2>5, <2>6, <2>7, <2>8, <2>9, <2>10, <2>11, <2>12, <2>13, <2>14, <2>15, <2>16, <2>17, <2>18, <2>19, <2>20, <2>21, <2>22, <2>23, <2>24 DEF InstallNext, Command
<1>2. QED
  BY <1>1 DEF Reload, AtStep, InstallInv, InstallTypes, WorkInPlace, Steps

\* A success leaves link, unit file, loaded unit and identity consistent.
THEOREM SuccessLeavesConsistency == InstallSpec => SuccessIsConsistent
<1>1. InstallInv /\ [InstallNext]_vars =>
        [\A i \in Installers :
           installer[i].pc # "done" /\ installer'[i].pc = "done" =>
             /\ {link', unit', loaded'} = {installer[i].revision}
             /\ identity' = {"group", "account"}]_vars
  BY SuccessStep
<1>2. QED
  BY <1>1, InstallInvariant, PTL DEF InstallSpec, SuccessIsConsistent
===================================================================================
