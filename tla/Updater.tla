------------------------------ MODULE Updater -------------------------------
(* How the program starts and keeps itself up to date: main.cpp, the       *)
(* component loader, component/updater.cpp and updater/file_updater.cpp.   *)
(*                                                                         *)
(* main runs the updater once before anything is loaded; the updater       *)
(* component runs it again on a thread of its own, which post_unpack waits *)
(* for.  A new host binary replaces the running one: the running file is   *)
(* moved to .exe.old, the new one written in its place and started.  The   *)
(* process may be killed at any step, downloads may fail and the disk may  *)
(* be full; a release may be published meanwhile.                          *)
EXTENDS DownloadPool

CONSTANTS
    DataFile,      \* the files under base_ that some release has
    LauncherFile,  \* get_launcher_ui_file, without which main throws
    Files          \* what each release lists, besides the host binary

ASSUME DataAssumption ==
    /\ IsFiniteSet(DataFile)
    /\ Files \in [Release -> SUBSET DataFile]
    /\ \A r \in Release : LauncherFile \in Files[r]

VARIABLES
    server,    \* the release that can be downloaded
    exe,       \* process_file_: a release, Partial or Absent
    dead,      \* dead_process_file_: .exe.old
    data,      \* the other files
    leaving,   \* a process that relaunched itself is still there, run from .exe.old
    phase,     \* where main is
    upd,       \* where file_updater::run is
    manifest,  \* get_file_infos' answer
    entries,   \* what the manifest does not list and cleanup_directories has yet to remove
    unremoved, \* as history, what remove_all left behind
    pool       \* the threads of update_files

disk == <<exe, dead, data>>
updater == <<upd, manifest, entries, unremoved, pool>>
updaterVars == <<server, disk, leaving, phase, updater>>

UpdaterInit ==
    /\ server = 0
    /\ exe = 0 /\ dead = Absent
    /\ \/ data = [f \in DataFile |-> Absent]
       \/ data = [f \in DataFile |-> IF f \in Files[0] THEN 0 ELSE Absent]
    /\ leaving = FALSE
    /\ phase = "off" /\ upd = "none" /\ manifest = 0 /\ pool = NoPool
    /\ entries = {} /\ unremoved = {}

Publish ==
    /\ server < MaxReleases
    /\ server' = server + 1
    /\ UNCHANGED <<faults, disk, leaving, phase, updater>>

-----------------------------------------------------------------------------
(* file_updater.                                                           *)

(* The constructor tries four times to delete .exe.old, which cannot be    *)
(* while the process that runs from it is there.                           *)
delete_old_process_file ==
    /\ upd = "constructor"
    /\ dead' = IF leaving THEN dead ELSE Absent
    /\ upd' = "run"
    /\ UNCHANGED <<server, faults, exe, data, leaving, phase, manifest, entries,
                   unremoved, pool>>

(* A mutant: what is there is taken for whole.                             *)
get_outdated_Absent(release) == {f \in Files[release] : data[f] = Absent}

get_outdated(release) == {f \in Files[release] : data[f] # release}

find_host_file_info(release) == exe # release

(* The existing files that the manifest does not list.                     *)
list_files(release) == {f \in DataFile \ Files[release] : data[f] # Absent}

(* Without a manifest nothing is removed and nothing is outdated.          *)
get_file_infos ==
    /\ upd = "run"
    /\ \/ Fault /\ upd' = "done" /\ UNCHANGED <<manifest, entries>>
       \/ /\ manifest' = server /\ entries' = list_files(server)
          /\ upd' = "cleanup"
          /\ UNCHANGED faults
    /\ unremoved' = {}
    /\ UNCHANGED <<server, disk, leaving, phase, pool>>

(* One by one; a remove_all that fails is not noticed.                     *)
cleanup_directories(f) ==
    /\ upd = "cleanup" /\ f \in entries
    /\ entries' = entries \ {f}
    /\ \/ /\ data' = [data EXCEPT ![f] = Absent]
          /\ UNCHANGED <<unremoved, faults>>
       \/ /\ Fault
          /\ unremoved' = unremoved \union {f}
          /\ UNCHANGED data
    /\ UNCHANGED <<server, exe, dead, leaving, phase, upd, manifest, pool>>

compare_files ==
    /\ upd = "cleanup" /\ entries = {}
    /\ upd' = IF find_host_file_info(manifest) THEN "move"
              ELSE IF get_outdated(manifest) = {} THEN "done" ELSE "files"
    /\ pool' = IF upd' = "files" THEN StartPool(get_outdated(manifest)) ELSE NoPool
    /\ UNCHANGED <<server, faults, disk, leaving, phase, manifest, entries, unremoved>>

(* MoveFileW, which does not overwrite; the result is ignored.             *)
(* A mutant: the running file is deleted.                                  *)
move_current_process_file_Deletes == exe' = Absent /\ UNCHANGED dead

move_current_process_file ==
    IF dead = Absent
    THEN dead' = exe /\ exe' = Absent
    ELSE UNCHANGED <<dead, exe>>

restore_current_process_file ==
    IF exe = Absent
    THEN exe' = dead /\ dead' = Absent
    ELSE UNCHANGED <<dead, exe>>

move_host ==
    /\ upd = "move"
    /\ move_current_process_file
    /\ upd' = "fetch_host"
    /\ UNCHANGED <<server, faults, data, leaving, phase, manifest, entries, unremoved,
                   pool>>

(* The download fails, or another release has taken the place of the one   *)
(* whose hash the manifest gave, or the file is still the running one and  *)
(* cannot be opened; otherwise it is opened, and so emptied.               *)
fetch_host ==
    /\ upd = "fetch_host"
    /\ \/ /\ Fault \/ (UNCHANGED faults /\ (server # manifest \/ exe # Absent))
          /\ upd' = "restore"
          /\ UNCHANGED exe
       \/ /\ server = manifest /\ exe = Absent
          /\ exe' = Partial
          /\ upd' = "write_host"
          /\ UNCHANGED faults
    /\ UNCHANGED <<server, dead, data, leaving, phase, manifest, entries, unremoved, pool>>

(* write_file does not look at what became of the write.                   *)
write_host ==
    /\ upd = "write_host"
    /\ \/ exe' = manifest /\ UNCHANGED faults
       \/ Fault /\ UNCHANGED exe
    /\ upd' = "relaunch"
    /\ UNCHANGED <<server, dead, data, leaving, phase, manifest, entries, unremoved, pool>>

restore_host ==
    /\ upd = "restore"
    /\ restore_current_process_file
    /\ upd' = "done"
    /\ UNCHANGED <<server, faults, data, leaving, phase, manifest, entries, unremoved,
                   pool>>

(* relaunch_self, then update_cancelled, on which update ends the process. *)
relaunch_self ==
    /\ upd = "relaunch"
    /\ leaving' = TRUE
    /\ IF Complete(exe)
       THEN phase' = "update" /\ upd' = "constructor"
       ELSE phase' = "off" /\ upd' = "none"
    /\ UNCHANGED <<server, faults, disk, manifest, entries, unremoved, pool>>

OldProcessEnds ==
    /\ leaving
    /\ leaving' = FALSE
    /\ UNCHANGED <<server, faults, disk, phase, updater>>

(* update_file: fetched and compared with the manifest before the file is  *)
(* opened.                                                                 *)
begin_update_file(f) ==
    /\ upd = "files" /\ MayTake(pool) /\ f \in pool.left
    /\ \/ /\ server = manifest
          /\ data' = [data EXCEPT ![f] = Partial]
          /\ pool' = Take(pool, f)
          /\ UNCHANGED faults
       \/ /\ Fault \/ (UNCHANGED faults /\ server # manifest)
          /\ pool' = Throw(Take(pool, f), f)
          /\ UNCHANGED data
    /\ UNCHANGED <<server, exe, dead, leaving, phase, upd, manifest, entries, unremoved>>

end_update_file(f) ==
    /\ upd = "files" /\ f \in pool.busy
    /\ \/ data' = [data EXCEPT ![f] = manifest] /\ UNCHANGED faults
       \/ Fault /\ UNCHANGED data
    /\ pool' = End(pool, f)
    /\ UNCHANGED <<server, exe, dead, leaving, phase, upd, manifest, entries, unremoved>>

(* Whatever was thrown, update goes on.                                    *)
update_files_joined ==
    /\ upd = "files" /\ Joined(pool)
    /\ upd' = "done"
    /\ pool' = NoPool
    /\ UNCHANGED <<server, faults, disk, leaving, phase, manifest, entries, unremoved>>

file_updater ==
    \/ delete_old_process_file
    \/ get_file_infos
    \/ \E f \in DataFile : cleanup_directories(f)
    \/ compare_files
    \/ move_host
    \/ fetch_host
    \/ write_host
    \/ restore_host
    \/ relaunch_self
    \/ \E f \in DataFile : begin_update_file(f) \/ end_update_file(f)
    \/ update_files_joined

-----------------------------------------------------------------------------
(* main, the component loader and the updater component.                   *)

(* The program can be started while its file is whole.                     *)
Start ==
    /\ phase = "off" /\ Complete(exe)
    /\ phase' = "update"
    /\ upd' = "constructor"
    /\ UNCHANGED <<server, faults, disk, leaving, manifest, entries, unremoved, pool>>

(* Without the launcher's file main throws; the player may close the      *)
(* launcher; otherwise activate constructs the components.                 *)
activate ==
    /\ phase = "update" /\ upd = "done"
    /\ \/ phase' = "off" /\ upd' = "none"
       \/ /\ data[LauncherFile] # Absent
          /\ phase' = "load"
          /\ upd' = "constructor"
    /\ UNCHANGED <<server, faults, disk, leaving, manifest, entries, unremoved, pool>>

(* A mutant: the game goes on while the updater does.                      *)
join_update_thread_Not == TRUE

join_update_thread == upd = "done"

(* load_process or post_load fails, and main's finally destroys.           *)
premature_shutdown ==
    /\ phase = "load"
    /\ join_update_thread
    /\ phase' = "off" /\ upd' = "none"
    /\ UNCHANGED <<server, faults, disk, leaving, manifest, entries, unremoved, pool>>

(* The game was loaded and calls the stub: the updater's post_unpack comes *)
(* before all others but arxan's.                                          *)
post_unpack ==
    /\ phase = "load"
    /\ join_update_thread
    /\ phase' = "play"
    /\ UNCHANGED <<server, faults, disk, leaving, updater>>

(* exit_hook: pre_destroy of each component, then ExitProcess.             *)
exit_hook ==
    /\ phase = "play"
    /\ phase' = "destroy"
    /\ UNCHANGED <<server, faults, disk, leaving, updater>>

exit_process ==
    /\ phase = "destroy"
    /\ phase' = "off" /\ upd' = "none"
    /\ UNCHANGED <<server, faults, disk, leaving, manifest, entries, unremoved, pool>>

Killed ==
    /\ phase # "off"
    /\ Fault
    /\ phase' = "off" /\ upd' = "none" /\ pool' = NoPool /\ entries' = {}
    /\ UNCHANGED <<server, disk, leaving, manifest, unremoved>>

-----------------------------------------------------------------------------
UpdaterTypeOK ==
    /\ server \in Release
    /\ exe \in Release \union {Absent, Partial}
    /\ dead \in Release \union {Absent, Partial}
    /\ data \in [DataFile -> Release \union {Absent, Partial}]
    /\ leaving \in BOOLEAN
    /\ phase \in {"off", "update", "load", "play", "destroy"}
    /\ upd \in {"none", "constructor", "run", "cleanup", "move", "fetch_host",
                "write_host", "restore", "relaunch", "files", "done"}
    /\ manifest \in Release /\ pool \in Pools(DataFile)
    /\ entries \subseteq DataFile /\ unremoved \subseteq DataFile

(* Which of the two host binaries can be relied on, step by step.          *)
HostInv ==
    /\ Complete(exe) \/ Complete(dead)
    /\ upd \in {"constructor", "run", "cleanup", "move", "files", "done"} => Complete(exe)
    /\ upd \in {"fetch_host", "restore"} =>
         Complete(exe) \/ (exe = Absent /\ Complete(dead))
    /\ upd \in {"write_host", "relaunch"} => Complete(dead) /\ exe # Absent

(* An update of release r left no file of another one but those that       *)
(* could not be removed, though the disk may have been too full for some.  *)
NoneOld(r) ==
    \A f \in DataFile :
        IF f \in Files[r] THEN data[f] \in {r, Partial}
        ELSE data[f] = Absent \/ f \in unremoved

(* What is not of the manifest's release is still to be done, unless it    *)
(* could not be removed or a worker has thrown.                            *)
FilesInv ==
    /\ upd \in {"cleanup", "files"} =>
        \A f \in DataFile \ Files[manifest] :
            data[f] = Absent \/ f \in entries \union unremoved
    /\ upd = "cleanup" => entries \intersect Files[manifest] = {}
    /\ upd = "files" =>
        /\ entries = {}
        /\ pool.left \union pool.busy \subseteq Files[manifest]
        /\ \A f \in pool.busy : data[f] = Partial
        /\ ~pool.failed => \A f \in Files[manifest] \ (pool.left \union pool.busy) :
                              data[f] \in {manifest, Partial}

(* The game runs only when the updater has done its work.                  *)
PlayInv ==
    /\ phase \in {"play", "destroy"} => upd = "done"
    /\ phase = "off" <=> upd = "none"
=============================================================================
