----------------------------- MODULE ClientLife -----------------------------
(* A client on one machine over several runs of the program: the updater   *)
(* decides when the game may start, the map downloads run while it plays,  *)
(* and the exit waits for them.  What is on the disk survives the process; *)
(* everything else starts anew.                                            *)
EXTENDS Updater, FastDL

VARIABLES
    destroyed,  \* the components whose pre_destroy was called
    called_off  \* as history, that the download fastdl's found still runs

ending == <<destroyed, called_off>>
vars == <<updaterVars, fastdlVars, faults, ending>>

Init ==
    /\ faults = 0 /\ destroyed = {} /\ called_off = FALSE
    /\ UpdaterInit /\ FastDLInit

-----------------------------------------------------------------------------
Starting ==
    /\ Start \/ file_updater \/ activate \/ premature_shutdown
    /\ UNCHANGED <<fastdlVars, ending>>

(* The game loads what usermaps it finds.                                  *)
Play ==
    /\ post_unpack
    /\ content' = Complete(marker)
    /\ UNCHANGED <<offered, answers, job, mapDisk, reloads, faults, ending>>

main ==
    /\ phase = "play"
    /\ check_valid_usermap_id \/ success_callback
    /\ UNCHANGED <<updaterVars, ending>>

player ==
    /\ phase = "play"
    /\ close_progress
    /\ UNCHANGED <<updaterVars, ending>>

(* The async thread runs to the end of what its pass has taken over.       *)
async ==
    /\ phase \in {"play", "destroy"}
    /\ perform_download
    /\ called_off' = (called_off /\ active')
    /\ UNCHANGED <<updaterVars, destroyed>>

Leave == exit_hook /\ UNCHANGED <<fastdlVars, faults, ending>>

(* The scheduler's pre_destroy joins the async thread, so fastdl's comes   *)
(* before it has begun or when the thread is gone.  Which of the two comes *)
(* first is the order in which they were registered.                       *)
pre_destroy_fastdl ==
    /\ phase = "destroy" /\ "fastdl" \notin destroyed
    /\ destroyed' = destroyed \union {"fastdl"}
    /\ called_off' = active
    /\ cancel_download
    /\ UNCHANGED updaterVars

pre_destroy_scheduler ==
    /\ phase = "destroy" /\ "scheduler" \notin destroyed
    /\ pc = "idle"
    /\ destroyed' = destroyed \union {"scheduler"}
    /\ jobs' = 0
    /\ UNCHANGED <<updaterVars, offered, answers, active, cancelled, pc, title, dl,
                   ui_cancelled, mapDisk, reloads, content, faults, called_off>>

Exit ==
    /\ destroyed = {"fastdl", "scheduler"}
    /\ exit_process
    /\ Anew /\ destroyed' = {} /\ called_off' = FALSE
    /\ UNCHANGED <<offered, mapDisk, faults>>

Kill ==
    /\ Killed
    /\ Anew /\ destroyed' = {} /\ called_off' = FALSE
    /\ UNCHANGED <<offered, mapDisk>>

Elsewhere ==
    \/ (Publish \/ OldProcessEnds) /\ UNCHANGED <<fastdlVars, faults, ending>>
    \/ PublishMap /\ UNCHANGED <<updaterVars, ending>>

Next ==
    \/ Starting
    \/ Play
    \/ main
    \/ player
    \/ async
    \/ Leave
    \/ pre_destroy_fastdl
    \/ pre_destroy_scheduler
    \/ Exit
    \/ Kill
    \/ Elsewhere

(* Threads run, the updater's transfers end, a process that has relaunched *)
(* itself goes away, and the player starts and leaves the game again and   *)
(* again.  Nothing says that the transfer of a map ends, or that the       *)
(* message box is answered.                                                *)
Fairness ==
    /\ WF_vars(Starting) /\ WF_vars(Play) /\ WF_vars(async /\ computed)
    /\ WF_vars(Leave) /\ WF_vars(pre_destroy_fastdl) /\ WF_vars(pre_destroy_scheduler)
    /\ WF_vars(Exit)
    /\ WF_vars(OldProcessEnds /\ UNCHANGED <<fastdlVars, faults, ending>>)

Spec == Init /\ [][Next]_vars

FairSpec == Spec /\ Fairness

-----------------------------------------------------------------------------
TypeOK ==
    /\ faults \in 0 .. MaxFaults
    /\ destroyed \subseteq {"fastdl", "scheduler"} /\ called_off \in BOOLEAN
    /\ UpdaterTypeOK /\ FastDLTypeOK

(* The inductive invariant: the host binaries and the phase, the download. *)
IInv == TypeOK /\ HostInv /\ PlayInv /\ DownloadInv

(* The flag tells whether the async thread is in a download; there is one  *)
(* only while the game is loaded, and none, nor one to come, when the      *)
(* scheduler is gone.                                                      *)
ExitInv ==
    /\ active <=> pc # "idle"
    /\ phase \notin {"play", "destroy"} => pc = "idle" /\ jobs = 0
    /\ destroyed # {} => phase = "destroy"
    /\ "scheduler" \in destroyed => pc = "idle" /\ jobs = 0

(* The strengthening of BeginsNoMore: the download that was called off is  *)
(* the one there is, and only another one resets the cancellation.         *)
CalledOffInv == called_off => active /\ cancelled

(* A whole host binary is on the disk at every step, in its place or as    *)
(* .exe.old: what file_updater moves away before it downloads is deleted   *)
(* only when the file in its place can run.                                *)
HostKept == Complete(exe) \/ Complete(dead)

(* The game does not play while its files are replaced: post_unpack joins  *)
(* the update thread that the component started.                           *)
PlayStable ==
    [][phase = "play" => UNCHANGED disk]_vars

(* workshop.json, which makes the directory a map to the game, is written  *)
(* after every other file of the manifest is whole, whatever was           *)
(* cancelled, failed or killed before.                                     *)
MarkerLast ==
    [][marker' # marker => \A f \in MapFile : ~is_file_outdated(f, title)]_vars

(* An update whose workers threw nothing, though it was raced by a release *)
(* or followed a killed one, has replaced every file it found to be old,   *)
(* and what the release does not list is gone, except for the files whose  *)
(* removal failed.                                                         *)
OldReplaced ==
    [][/\ upd' = "done"
       /\ upd = "cleanup" \/ (upd = "files" /\ ~pool.failed)
       => NoneOld(manifest)]_vars

(* The exit cuts off neither the updater nor a download: by then no thread *)
(* is in one and none is queued, however the two pre_destroys were ordered *)
(* and whatever the player and the server did meanwhile.                   *)
ExitUncut ==
    [][Exit => upd = "done" /\ ~active /\ jobs = 0]_vars

(* Once nothing more is published or fails, a player who starts the        *)
(* program again and again comes to have the release, whatever the kills,  *)
(* the failed transfers, the failed removals and the relaunches left       *)
(* behind, unless an exit is held up.  There is one way to be left with    *)
(* nothing that can be started: a kill after the running binary was moved  *)
(* away and before the new one is whole, or a disk too full for it.        *)
Current ==
    /\ exe = server
    /\ data = [f \in DataFile |-> IF f \in Files[server] THEN server ELSE Absent]

Stranded == phase = "off" /\ ~Complete(exe)

OnlyReplacingStrands ==
    [][~Stranded /\ Stranded' =>
           \/ Killed /\ upd \in {"fetch_host", "restore", "write_host", "relaunch"}
           \/ relaunch_self /\ exe = Partial]_vars

Updated ==
    /\ OnlyReplacingStrands
    /\ <>[]Current \/ <>[]Stranded \/ <>[](phase = "destroy")

(* The exit waits for the transfers in flight and for the message box, and *)
(* for nothing else, with a download at any of its steps and another one   *)
(* queued; and the download that cancel_download found, at whichever step, *)
(* begins no further file.                                                 *)
HeldUp == pc \in {"manifest", "ask", "fetch"} \/ (pc = "files" /\ dl.busy # {})

BeginsNoMore ==
    [][called_off => /\ dl'.busy \subseteq dl.busy
                     /\ pc' = "fetch" => pc = "fetch"]_vars

=============================================================================
