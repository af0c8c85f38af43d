------------------------------- MODULE ReleaseInstall -----------------------------
(***********************************************************************************)
(* Installing a release of the gateway (deploy/systemd/install.sh): build it in a   *)
(* directory of its own, prove it usable, swap the `venv` link, replace the unit.   *)
(*                                                                                 *)
(* Several installers may run; any command may fail, which runs the EXIT trap; a   *)
(* shell may be killed, while the command it waits for runs on and inherits the    *)
(* lock on descriptor 9; and the host may stop.  The host's tools (uv, flock, mv,   *)
(* rm, systemctl) are modelled by their effect on the files below.  A signal that   *)
(* runs the trap has also ended the command, as one sent to the process group does. *)
(* An installer is a process: its identifier is not used again.                     *)
(***********************************************************************************)
EXTENDS Integers

CONSTANTS
  Installers,    \* processes that run install.sh
  Revisions,     \* commits the checkout may be at
  MaxStops,      \* bound on killed shells and host stops
  None           \* no installer, no revision

ASSUME InstallAssumption ==
  /\ None \notin Installers \cup Revisions
  /\ MaxStops \in Nat

\* What is in the directory of a release: nothing but perhaps some files ("bare"), the
\* executable ("built"), also the marker but nothing the service may read ("marked"),
\* executable and marker readable and some other file missing or unreadable ("partly"),
\* or all of it.
Contents == {"absent", "bare", "built", "marked", "partly", "whole"}

VARIABLES
  holder,      \* who has the lock file locked
  identity,    \* which of the group and the account of the service exist
  release,     \* what is in releases/<revision>
  link,        \* the release the link `venv` leads to
  unit,        \* the release the installed unit file is from
  loaded,      \* the release of the unit the service manager has read
  installer,   \* the processes
  stops,       \* killed shells and host stops so far
  activated    \* releases the link ever led to (history)

files == <<identity, release, link, unit, loaded, activated>>
vars == <<holder, files, installer, stops>>

\* `created` is release_created; `shell` is FALSE once the shell was killed;
\* `spare` is the target of the temporary link.
Steps == {"lock", "group", "account", "release", "own", "build", "mark", "chmod",
          "verify", "spare", "switch", "unit", "reload", "cleanup"}
Ends == {"idle", "done", "failed", "dead"}
Installer == [pc : Steps \cup Ends, revision : Revisions \cup {None},
              created : BOOLEAN, shell : BOOLEAN, spare : Revisions \cup {None}]
Unstarted ==
  [pc |-> "idle", revision |-> None, created |-> FALSE, shell |-> TRUE, spare |-> None]

InstallInit ==
  /\ holder = None
  /\ identity = {}
  /\ release = [r \in Revisions |-> "absent"]
  /\ link = None /\ unit = None /\ loaded = None
  /\ installer = [i \in Installers |-> Unstarted]
  /\ stops = 0
  /\ activated = {}

AtStep(i, pc) == installer[i].pc = pc

\* A command is followed by the next one; one whose shell is gone ends, and with it
\* goes the lock.
After(i, next) == IF installer[i].shell THEN next ELSE "dead"
LockAfter(i) == IF installer[i].shell THEN holder ELSE None
Proceed(i, next) ==
  /\ installer' = [installer EXCEPT ![i].pc = After(i, next)]
  /\ holder' = LockAfter(i)

-----------------------------------------------------------------------------------
(* The script, command by command.                                                 *)

\* Prerequisites hold, the checkout is clean, HEAD is read once and archived.
Start(i, r) ==
  /\ AtStep(i, "idle")
  /\ installer' = [installer EXCEPT ![i].pc = "lock", ![i].revision = r]
  /\ UNCHANGED <<holder, files, stops>>

\* Faulty: the installers are not serialized.
LockAlways(i) ==
  /\ AtStep(i, "lock")
  /\ holder' = i
  /\ installer' = [installer EXCEPT ![i].pc = "group"]
  /\ UNCHANGED <<files, stops>>

TakeLock(i) ==
  /\ AtStep(i, "lock") /\ holder = None
  /\ holder' = i
  /\ installer' = [installer EXCEPT ![i].pc = "group"]
  /\ UNCHANGED <<files, stops>>

EnsureGroup(i) ==
  /\ AtStep(i, "group")
  /\ identity' = identity \cup {"group"}
  /\ Proceed(i, "account")
  /\ UNCHANGED <<release, link, unit, loaded, activated, stops>>

EnsureAccount(i) ==
  /\ AtStep(i, "account")
  /\ identity' = identity \cup {"account"}
  /\ Proceed(i, "release")
  /\ UNCHANGED <<release, link, unit, loaded, activated, stops>>

\* Every step that writes into the directory of a release.
Fill(i, contents) ==
  /\ release' = [release EXCEPT ![installer[i].revision] = contents]
  /\ UNCHANGED <<identity, link, unit, loaded, activated, stops>>

\* Identity and runtime are valid and the directories exist; a release with its
\* executable and marker is used as it is, any other one is refused (see Fail).
ReuseRelease(i) ==
  /\ AtStep(i, "release")
  /\ release[installer[i].revision] \in {"marked", "partly", "whole"}
  /\ Proceed(i, "verify")
  /\ UNCHANGED <<files, stops>>

MakeDirectory(i) ==
  /\ AtStep(i, "release")
  /\ release[installer[i].revision] = "absent"
  /\ Fill(i, "bare")
  /\ Proceed(i, "own")

Own(i) ==
  /\ AtStep(i, "own")
  /\ installer' = [installer EXCEPT ![i].created = TRUE, ![i].pc = "build"]
  /\ UNCHANGED <<holder, files, stops>>

\* uv exports, creates the environment and installs; the executable is in place.
Build(i) ==
  /\ AtStep(i, "build")
  /\ Fill(i, "built")
  /\ Proceed(i, "mark")

\* The umask is 077: the service can read nothing yet.
Mark(i) ==
  /\ AtStep(i, "mark")
  /\ Fill(i, "marked")
  /\ Proceed(i, "chmod")

GrantSome(i) ==
  /\ AtStep(i, "chmod") /\ release[installer[i].revision] = "marked"
  /\ Fill(i, "partly")
  /\ UNCHANGED <<holder, installer>>

GrantAll(i) ==
  /\ AtStep(i, "chmod")
  /\ Fill(i, "whole")
  /\ Proceed(i, "verify")

\* Faulty: the trap still removes the release.
VerifyAndOwn(i) ==
  /\ AtStep(i, "verify")
  /\ release[installer[i].revision] \in {"partly", "whole"}
  /\ installer' = [installer EXCEPT ![i].pc = "spare"]
  /\ UNCHANGED <<holder, files, stops>>

\* The probes run the entry point with a stand-in for main and import the package and
\* its __main__ as the service account: they do not touch every file.
Verify(i) ==
  /\ AtStep(i, "verify")
  /\ release[installer[i].revision] \in {"partly", "whole"}
  /\ installer' = [installer EXCEPT ![i].created = FALSE, ![i].pc = "spare"]
  /\ UNCHANGED <<holder, files, stops>>

MakeSpareLink(i) ==
  /\ AtStep(i, "spare")
  /\ installer' = [installer EXCEPT ![i].spare = installer[i].revision, ![i].pc = "switch"]
  /\ UNCHANGED <<holder, files, stops>>

\* One rename.
Switch(i) ==
  /\ AtStep(i, "switch")
  /\ link' = installer[i].spare
  /\ activated' = activated \cup {installer[i].spare}
  /\ installer' = [installer EXCEPT ![i].spare = None, ![i].pc = "unit"]
  /\ UNCHANGED <<holder, identity, release, unit, loaded, stops>>

\* install removes the old file, then writes the new one.
RemoveUnit(i) ==
  /\ AtStep(i, "unit") /\ unit # None
  /\ unit' = None
  /\ UNCHANGED <<holder, identity, release, link, loaded, installer, activated, stops>>

WriteUnit(i) ==
  /\ AtStep(i, "unit") /\ unit = None
  /\ unit' = installer[i].revision
  /\ Proceed(i, "reload")
  /\ UNCHANGED <<identity, release, link, loaded, activated, stops>>

\* Faulty: the reload is left out.
ExitWithoutReload(i) ==
  /\ AtStep(i, "reload")
  /\ holder' = None
  /\ installer' = [installer EXCEPT ![i].pc = "done"]
  /\ UNCHANGED <<files, stops>>

\* The last command; the script ends and gives the lock back.
Reload(i) ==
  /\ AtStep(i, "reload")
  /\ loaded' = unit
  /\ holder' = None
  /\ installer' = [installer EXCEPT ![i].pc = After(i, "done")]
  /\ UNCHANGED <<identity, release, link, unit, activated, stops>>

-----------------------------------------------------------------------------------
(* Failures.                                                                       *)

\* A command fails, a check refuses, or a signal arrives that runs the EXIT trap.
Fail(i) ==
  /\ installer[i].pc \in Steps \ {"cleanup"} /\ installer[i].shell
  /\ installer' = [installer EXCEPT ![i].pc = "cleanup"]
  /\ UNCHANGED <<holder, files, stops>>

\* rm -rf takes one file after another; the executable and the marker may go last.
RemoveSome(i) ==
  /\ AtStep(i, "cleanup") /\ installer[i].created
  /\ \E left \in {"bare", IF release[installer[i].revision] = "whole" THEN "partly"
                         ELSE release[installer[i].revision]} : Fill(i, left)
  /\ UNCHANGED <<holder, installer>>

RemoveRelease(i) ==
  /\ AtStep(i, "cleanup") /\ installer[i].created
  /\ Fill(i, "absent")
  /\ installer' = [installer EXCEPT ![i].created = FALSE, ![i].pc = After(i, "cleanup")]
  /\ holder' = LockAfter(i)

\* The temporary link goes last, and with the process the lock, if it was taken.
EndTrap(i) ==
  /\ AtStep(i, "cleanup") /\ ~installer[i].created
  /\ installer' = [installer EXCEPT ![i].spare = None, ![i].pc = "failed"]
  /\ holder' = IF holder = i THEN None ELSE holder
  /\ UNCHANGED <<files, stops>>

Stop == stops < MaxStops /\ stops' = stops + 1

\* The shell waits for a command that may still change files.  Commands of one change
\* to the files are killed before it or, at the next step, after it.
RunsCommand(i) ==
  \/ installer[i].pc \in {"build", "chmod", "unit", "reload"}
  \/ AtStep(i, "cleanup") /\ installer[i].created
Orphaned(i) == IF RunsCommand(i) THEN installer[i].pc ELSE "dead"

\* Faulty: the lock is gone although its command runs on.
KillShellAndLock(i) ==
  /\ Stop
  /\ installer[i].pc \in Steps /\ installer[i].shell
  /\ installer' = [installer EXCEPT ![i].shell = FALSE, ![i].pc = Orphaned(i)]
  /\ holder' = IF holder = i THEN None ELSE holder
  /\ UNCHANGED files

\* Only the shell dies.  A command it waits for runs on, with the lock.
KillShell(i) ==
  /\ Stop
  /\ installer[i].pc \in Steps /\ installer[i].shell
  /\ installer' = [installer EXCEPT ![i].shell = FALSE, ![i].pc = Orphaned(i)]
  /\ holder' = IF holder = i /\ ~RunsCommand(i) THEN None ELSE holder
  /\ UNCHANGED files

\* A child without its shell fails: nobody cleans up.
ChildFails(i) ==
  /\ ~installer[i].shell /\ installer[i].pc \in Steps
  /\ Proceed(i, "dead")
  /\ UNCHANGED <<files, stops>>

\* The host stops and starts again: the units are read afresh.
HostStops ==
  /\ Stop
  /\ installer' = [i \in Installers |->
       IF installer[i].pc \in Steps THEN [installer[i] EXCEPT !.pc = "dead"]
       ELSE installer[i]]
  /\ holder' = None
  /\ loaded' = unit
  /\ UNCHANGED <<identity, release, link, unit, activated>>

Command(i) ==
  \/ TakeLock(i) \/ EnsureGroup(i) \/ EnsureAccount(i)
  \/ ReuseRelease(i) \/ MakeDirectory(i) \/ Own(i) \/ Build(i) \/ Mark(i)
  \/ GrantSome(i) \/ GrantAll(i) \/ Verify(i)
  \/ MakeSpareLink(i) \/ Switch(i) \/ RemoveUnit(i) \/ WriteUnit(i) \/ Reload(i)
  \/ Fail(i) \/ RemoveSome(i) \/ RemoveRelease(i) \/ EndTrap(i)

InstallNext ==
  \/ \E i \in Installers :
       \/ \E r \in Revisions : Start(i, r)
       \/ Command(i) \/ KillShell(i) \/ ChildFails(i)
  \/ HostStops

InstallSpec == InstallInit /\ [][InstallNext]_vars

-----------------------------------------------------------------------------------
(* Properties.                                                                     *)

\* Every variable has its type, and the shell knows the name of a temporary link only
\* until it is renamed.
InstallTypeOK ==
  /\ holder \in Installers \cup {None}
  /\ identity \subseteq {"group", "account"}
  /\ release \in [Revisions -> Contents]
  /\ {link, unit, loaded} \subseteq Revisions \cup {None}
  /\ installer \in [Installers -> Installer]
  /\ \A i \in Installers :
       installer[i].spare # None => installer[i].pc \in {"switch", "cleanup", "dead"}
  /\ stops \in 0..MaxStops
  /\ activated \subseteq Revisions

\* What the install plan states (docs/PR-SYSTEM-SERVICE-INSTALL.md:26): the link leads
\* only to a completely installed release.  The marker, written before the permissions,
\* and the removal of a release spoil it when the host stops in the middle.
ActiveIsComplete == link # None => release[link] = "whole"

\* It is true as long as every failure and signal runs the EXIT trap, with any number of
\* installers that build, reuse and remove the same release.
CompleteUnlessStopped == stops = 0 => ActiveIsComplete

\* A release that was ever active is never changed or removed again, by a rerun, by the
\* trap of a failing one or by another installer: the running service is started from
\* it again at any time, and it is kept for going back.
ActivatedIsKept == [][\A r \in activated : release'[r] = release[r]]_vars

\* When an installer reports success, the link, the unit file and the unit the service
\* manager has read are all of its revision, and the identity the unit names exists,
\* whatever failed or was interrupted in earlier runs.
SuccessIsConsistent ==
  [][\A i \in Installers :
       installer[i].pc # "done" /\ installer'[i].pc = "done" =>
         /\ {link', unit', loaded'} = {installer[i].revision}
         /\ identity' = {"group", "account"}]_vars

\* Whoever writes below /opt or into the unit holds the lock: also a command whose shell
\* was killed, which a later installer does not see otherwise.
WritersHoldTheLock ==
  \A i \in Installers :
    /\ installer[i].pc \in Steps \ {"lock"}
    /\ AtStep(i, "cleanup") => installer[i].created
    => holder = i
===================================================================================
